---- MODULE Spec2Model ----
(***************************************************************************)
(* Model of wubuku/graphrag-server: the citation parser and link renderer  *)
(* (webserver/utils/refer.py), the search dispatcher                       *)
(* (webserver/search/base.py), the chat endpoint (webserver/main.py) and   *)
(* the record store (webserver/search/indexdata.py).                       *)
(***************************************************************************)
EXTENDS Integers, Sequences, FiniteSets, TLC

VARIABLES
    toks,       \* refer: the tokens of the answer text written so far
    gaps,       \* refer: gaps[i] = number of blanks written after toks[i]
    refs,       \* refer: the mapping returned by get_reference
    rpc,        \* refer: "off" | "writing" | "scanned"
    engine_type,     \* dispatcher: the strategy the handler is pinned to
    data,            \* dispatcher: self.data, table name -> "None" | "df"
    show_references, \* settings.show_references
    hpc,        \* request: "off" | "idle" | "sync_done" | "stream"
    called,     \* dispatcher: the api strategy functions called so far
    result,     \* dispatcher: what search() returned
    gen,        \* stream_search generator: "new" | "iter" | "last" | "done" | "raised"
    yielded,    \* the tokens stream_search has yielded
    pending,    \* the token yielded and not yet taken by the consumer
    raisedAt,   \* Len(yielded) when the strategy raised, or -1
    wpc,        \* wrapper_astream_search: "loop" | "final" | "done"
    token_index,    \* wrapper_astream_search: token_index
    full_response,  \* wrapper_astream_search: full_response
    events,     \* the events sent to the client
    status,     \* chat completion: the HTTP status answered, or 0
    response,   \* chat completion, not streaming: the message content answered
    strategy_end,   \* how the strategy called by search ended, or "none"
    store,      \* record store: the table file of the requested datatype
    req,        \* record store: the request, [datatype, id]
    library,    \* record store: how the graphrag adapter behaved in the call
    returned,   \* record store: what get_index_data returned or raised
    ipc,        \* record store: "off" | "idle" | "done" | "again"
    previous,   \* record store: what the call before the last one returned
    link_data,  \* link renderer: data.items(), a sequence of <<key, values>>
    link_index, \* link renderer: index_id
    link_text,  \* link renderer: the string generate_ref_links returned
    link_refs,  \* link renderer: what get_reference extracts from link_text
    lkpc,       \* link renderer: "off" | "idle" | "done" | "scanned"
    data_dir,   \* lookup endpoint: os.path.exists(settings.data)
    ref_status, \* lookup endpoint: the HTTP status answered, or 0
    table_read, \* lookup endpoint: pd.read_parquet was called
    epc,        \* lookup endpoint: "off" | "idle" | "done"
    engines,    \* server: the globals local_search, global_search, drift_search, basic_search
    pinned,     \* server: engine_type of every SearchEngineHandler object
    spc,        \* server: where each run of startup() is
    startup_end,    \* server: how each run of startup() ended
    qpc,        \* server: where each chat completion request is
    qmodel,     \* server: request.model of each request
    served_by,  \* server: search_engine of each request
    qstatus,    \* server: the HTTP status each request was answered, or 0
    health,     \* server: the answers of GET /health so far, latest last
    DEBUG_MODE, \* debug toggle: the module global of indexdata.py
    dreq        \* debug toggle: each caller of the enable ... restore pair

referVars == <<toks, gaps, refs, rpc>>
httpVars == <<status, response, strategy_end>>
searchVars == <<engine_type, data, show_references, hpc, called, result, gen,
                yielded, pending, raisedAt, wpc, token_index, full_response,
                events, httpVars>>
storeVars == <<store, req, library, returned, ipc, previous>>
linkVars == <<link_data, link_index, link_text, link_refs, lkpc>>
endpointVars == <<data_dir, ref_status, table_read, epc>>
serverVars == <<engines, pinned, spc, startup_end, qpc, qmodel, served_by,
                qstatus, health>>
debugVars == <<DEBUG_MODE, dreq>>
vars == <<referVars, searchVars, storeVars, linkVars, endpointVars, serverVars,
          debugVars>>

\* what the actions of one part of the model leave alone
othersOfRefer == <<searchVars, storeVars, linkVars, endpointVars, serverVars,
                   debugVars>>
othersOfSearch == <<referVars, storeVars, linkVars, endpointVars, serverVars,
                    debugVars>>
othersOfStore == <<referVars, searchVars, linkVars, endpointVars, serverVars,
                   debugVars>>
othersOfLinks == <<referVars, searchVars, storeVars, endpointVars, serverVars,
                   debugVars>>
othersOfEndpoint == <<referVars, searchVars, linkVars, serverVars, debugVars>>
othersOfServer == <<referVars, searchVars, storeVars, linkVars, endpointVars,
                    debugVars>>
othersOfDebug == <<referVars, searchVars, storeVars, linkVars, endpointVars,
                   serverVars>>

(***************************************************************************)
(* Bounds of the model.                                                    *)
(***************************************************************************)
MaxToks == 12       \* tokens of one answer text
MaxRows == 2        \* rows of one table
MaxOdd == 2         \* variations from the plain marker, and blanks, of one text
MaxChunks == 3      \* tokens one strategy stream yields
MaxKeys == 2        \* keys of one mapping given to generate_ref_links
MaxIds == 2         \* ids of one key of such a mapping
MaxRequests == 2    \* chat completion requests in flight
MaxHealthChecks == 2    \* GET /health requests
MaxDebugRequests == 3   \* callers of the debug toggle

(***************************************************************************)
(* Characters.  A text is a sequence of one-character strings.             *)
(***************************************************************************)
DigitChars == {"0", "1", "2", "3", "4", "5", "6", "7", "8", "9"}
UpperSeq == <<"A", "B", "C", "D", "E", "F", "G", "H", "I", "J", "K", "L", "M",
              "N", "O", "P", "Q", "R", "S", "T", "U", "V", "W", "X", "Y", "Z">>
LowerSeq == <<"a", "b", "c", "d", "e", "f", "g", "h", "i", "j", "k", "l", "m",
              "n", "o", "p", "q", "r", "s", "t", "u", "v", "w", "x", "y", "z">>
UpperChars == {UpperSeq[i] : i \in DOMAIN UpperSeq}
LowerChars == {LowerSeq[i] : i \in DOMAIN LowerSeq}
\* the letter U+00DF, written here by its name: a lowercase letter, matched
\* by \w, that str.lower() leaves alone and whose title case is the two
\* letters "Ss"
Eszett == "sz"
\* \w, \s and the class [\d\s,] of the pattern
WordChars == UpperChars \cup LowerChars \cup DigitChars \cup {"_", Eszett}
SpaceChars == {" "}
IdListChars == DigitChars \cup SpaceChars \cup {","}

Max(S) == CHOOSE x \in S : \A y \in S : y <= x

\* str.lower() of one character
LowerChar(c) ==
    IF c \in UpperChars
    THEN LowerSeq[CHOOSE i \in DOMAIN UpperSeq : UpperSeq[i] = c]
    ELSE c

\* str.lower() left out: the kind name is the key as written
Lower_NoFold(s) == s

\* str.lower()
Lower(s) == [i \in DOMAIN s |-> LowerChar(s[i])]

(***************************************************************************)
(* Regular-expression matching.  A sub-pattern maps the set of positions   *)
(* where it may start to the set of positions where it may end; position p *)
(* is the place before t[p].                                               *)
(***************************************************************************)
\* X* for a character class X, from position p
StarEnds(t, p, X) == {q \in p..(Len(t) + 1) : \A i \in p..(q - 1) : t[i] \in X}

Star(t, P, X) == UNION {StarEnds(t, p, X) : p \in P}

\* X+ for a character class X
Plus(t, P, X) == UNION {StarEnds(t, p, X) \ {p} : p \in P}

\* one character of the class X
One(t, P, X) == {p + 1 : p \in {q \in P : q <= Len(t) /\ t[q] \in X}}

\* the literal string w
RECURSIVE Lit(_, _, _)
Lit(t, P, w) ==
    IF w = <<>> THEN P ELSE Lit(t, One(t, P, {Head(w)}), Tail(w))

\* ([\d\s,]+(?:\+\w+)?)\)  : the id list, its optional elision suffix, and ")"
IdListEnds(t, P) ==
    LET d == Plus(t, P, IdListChars)
        e == d \cup Plus(t, One(t, d, {"+"}), WordChars)
    IN  One(t, e, {")"})

\* \s*\(([\d\s,]+(?:\+\w+)?)\)  : what follows the kind name of a group
AfterKindEnds(t, P) == IdListEnds(t, One(t, Star(t, P, SpaceChars), {"("}))

\* \s*(\w+)\s*\(([\d\s,]+(?:\+\w+)?)\)(?:[,;]\s*)?  : one group of the pattern
GroupEnds(t, P) ==
    LET g == AfterKindEnds(t, Plus(t, Star(t, P, SpaceChars), WordChars))
    IN  g \cup Star(t, One(t, g, {",", ";"}), SpaceChars)

\* (?: group )+
RECURSIVE GroupsClosure(_, _)
GroupsClosure(t, P) ==
    LET N == P \cup GroupEnds(t, P)
    IN  IF N = P THEN P ELSE GroupsClosure(t, N)

GroupsPlus(t, P) == GroupsClosure(t, GroupEnds(t, P))

\* pattern = \[\^?Data:(?: group )+\]   matched at position p
PatternEnds(t, p) ==
    LET a == One(t, {p}, {"["})
        b == a \cup One(t, a, {"^"})
        c == Lit(t, b, <<"D", "a", "t", "a", ":">>)
    IN  One(t, GroupsPlus(t, c), {"]"})

\* pattern.finditer(text): the matched substrings, left to right, not overlapping
RECURSIVE FindMarkers(_, _)
FindMarkers(t, p) ==
    LET S == {q \in p..Len(t) : PatternEnds(t, q) # {}}
    IN  IF S = {} THEN <<>>
        ELSE LET q == CHOOSE x \in S : \A y \in S : x <= y
                 E == PatternEnds(t, q)
             IN  <<SubSeq(t, q, Max(E) - 1)>> \o FindMarkers(t, Max(E))

\* re.finditer(r'(\w+)\s*\(([\d\s,]+(?:\+\w+)?)\)', full_match): the pairs
\* <<group(1), group(2)>>; \w+ is greedy, so the longest kind name that lets
\* the rest match is the one captured
RECURSIVE FindItems(_, _)
FindItems(m, p) ==
    IF p > Len(m) THEN <<>>
    ELSE LET K == {q \in Plus(m, {p}, WordChars) : AfterKindEnds(m, {q}) # {}}
         IN  IF K = {} THEN FindItems(m, p + 1)
             ELSE LET q == Max(K)
                      lp == Max(One(m, Star(m, {q}, SpaceChars), {"("}))
                      e == Max(AfterKindEnds(m, {q}))
                  IN  <<<<SubSeq(m, p, q - 1), SubSeq(m, lp, e - 2)>>>>
                          \o FindItems(m, e)

\* re.sub(r'\+\w+', '', id_text)
RECURSIVE RemoveSuffix(_)
RemoveSuffix(s) ==
    IF s = <<>> THEN <<>>
    ELSE IF Head(s) = "+" /\ Plus(s, {2}, WordChars) # {}
         THEN RemoveSuffix(SubSeq(s, Max(Plus(s, {2}, WordChars)), Len(s)))
         ELSE <<Head(s)>> \o RemoveSuffix(Tail(s))

\* id_text.split(',')
RECURSIVE SplitComma(_)
SplitComma(s) ==
    IF \A i \in DOMAIN s : s[i] # "," THEN <<s>>
    ELSE LET c == CHOOSE i \in DOMAIN s :
                      s[i] = "," /\ \A j \in 1..(i - 1) : s[j] # ","
         IN  <<SubSeq(s, 1, c - 1)>> \o SplitComma(SubSeq(s, c + 1, Len(s)))

\* id_str.strip()
Strip(s) ==
    LET I == {i \in DOMAIN s : s[i] \notin SpaceChars}
    IN  IF I = {} THEN <<>>
        ELSE SubSeq(s, CHOOSE i \in I : \A j \in I : i <= j, Max(I))

\* id_str.isdigit()
IsDigitStr(s) == s # <<>> /\ \A i \in DOMAIN s : s[i] \in DigitChars

\* data_dict[data_type].add(id_str) on a defaultdict(set)
DictAdd(d, k, v) ==
    [x \in DOMAIN d \cup {k} |->
        IF x = k THEN (IF k \in DOMAIN d THEN d[k] ELSE {}) \cup {v} ELSE d[x]]

EmptyDict == [x \in {} |-> {}]

\* the pairs <<key, id>> of a mapping
Pairs(d) == {<<k, v>> : k \in DOMAIN d, v \in UNION {d[x] : x \in DOMAIN d}}
               \cap UNION {{<<k, v>> : v \in d[k]} : k \in DOMAIN d}

\* a mapping says exactly the pairs ps: no other pair, and no key without ids
Says(d, ps) == Pairs(d) = ps /\ \A k \in DOMAIN d : d[k] # {}

\* the ids of one id list: the loop of refer.py lines 31-35
RECURSIVE AddIds(_, _, _)
AddIds(d, k, parts) ==
    IF parts = <<>> THEN d
    ELSE LET id_str == Strip(Head(parts))
         IN  AddIds(IF IsDigitStr(id_str) THEN DictAdd(d, k, id_str) ELSE d,
                    k, Tail(parts))

\* the id text used as captured, the elision suffix still in it
CleanIdText_Keep(id_text) == id_text

\* the cleaned id text of one item: refer.py line 31
CleanIdText(id_text) == RemoveSuffix(id_text)

\* the items of one full match: the loop of refer.py lines 26-35
RECURSIVE AddItems(_, _)
AddItems(d, items) ==
    IF items = <<>> THEN d
    ELSE AddItems(AddIds(d, Lower(Head(items)[1]),
                         SplitComma(CleanIdText(Head(items)[2]))),
                  Tail(items))

\* the text an item extraction scans: refer.py lines 22 and 26
ItemsOf(full_match) == FindItems(full_match, 1)

\* the loop over the complete references: refer.py lines 20-35
RECURSIVE AddMarkers(_, _)
AddMarkers(d, ms) ==
    IF ms = <<>> THEN d
    ELSE AddMarkers(AddItems(d, ItemsOf(Head(ms))), Tail(ms))

\* the item extraction run on the whole text, with no envelope match first
get_reference_OneStage(text) == AddItems(EmptyDict, FindItems(text, 1))

\* refer.get_reference(text)
get_reference(text) == AddMarkers(EmptyDict, FindMarkers(text, 1))

\* The returned dict iterates its keys in insertion order; a key is
\* inserted by the first data_dict[data_type].add of that key.
Range(s) == {s[i] : i \in DOMAIN s}

KeysOfIds(ks, k, parts) ==
    IF k \notin Range(ks) /\ \E i \in DOMAIN parts : IsDigitStr(Strip(parts[i]))
    THEN Append(ks, k) ELSE ks

RECURSIVE KeysOfItems(_, _)
KeysOfItems(ks, items) ==
    IF items = <<>> THEN ks
    ELSE KeysOfItems(KeysOfIds(ks, Lower(Head(items)[1]),
                               SplitComma(CleanIdText(Head(items)[2]))),
                     Tail(items))

RECURSIVE KeysOfMarkers(_, _)
KeysOfMarkers(ks, ms) ==
    IF ms = <<>> THEN ks
    ELSE KeysOfMarkers(KeysOfItems(ks, ItemsOf(Head(ms))), Tail(ms))

\* list(get_reference(text)): the keys in iteration order
KeysInOrder(text) == KeysOfMarkers(<<>>, FindMarkers(text, 1))

(***************************************************************************)
(* The answer texts.  A text is written token by token, each token         *)
(* followed by gaps[i] blanks; Render gives its characters.                *)
(***************************************************************************)
Tok(ty, ch, key) == [ty |-> ty, ch |-> ch, key |-> key]

OpenToks == {Tok("open", <<"[", "D", "a", "t", "a", ":">>, <<>>),
             Tok("open", <<"[", "^", "D", "a", "t", "a", ":">>, <<>>),
             Tok("nobr", <<"D", "a", "t", "a", ":">>, <<>>)}
\* a kind name, with the output key it stands for
KindToks == {Tok("kind", <<"S">>, <<"s">>),
             Tok("kind", <<"s">>, <<"s">>),
             Tok("kind", <<"R", "e">>, <<"r", "e">>)}
IdToks == {Tok("id", <<"1">>, <<>>), Tok("id", <<"1", "5">>, <<>>)}
WordTok == Tok("word", <<"a", "b">>, <<>>)
SufTok == Tok("suf", <<"+", "m">>, <<>>)
LpTok == Tok("lp", <<"(">>, <<>>)
RpTok == Tok("rp", <<")">>, <<>>)
CommaTok == Tok("comma", <<",">>, <<>>)
SepToks == {Tok("sep", <<",">>, <<>>), Tok("sep", <<";">>, <<>>)}
CloseTok == Tok("close", <<"]">>, <<>>)
ProseTok == Tok("prose", <<" ", "x", " ">>, <<>>)

PlainOpen == Tok("open", <<"[", "D", "a", "t", "a", ":">>, <<>>)
PlainKind == Tok("kind", <<"S">>, <<"s">>)
PlainId == Tok("id", <<"1">>, <<>>)
PlainSep == Tok("sep", <<",">>, <<>>)

\* the tokens that may follow a token of type ty ("out": outside a marker)
Follows(ty) ==
    CASE ty \in {"out", "prose", "close"} -> {ProseTok} \cup OpenToks \cup KindToks
      [] ty \in {"open", "nobr"} -> KindToks \cup {CloseTok}
      [] ty = "kind" -> {LpTok, CloseTok}
      [] ty \in {"lp", "comma"} -> IdToks \cup {WordTok, SufTok, RpTok}
      [] ty \in {"id", "word"} -> {CommaTok, RpTok, SufTok}
      [] ty = "suf" -> {RpTok}
      [] ty = "rp" -> SepToks \cup KindToks \cup {CloseTok, ProseTok}
      [] ty = "sep" -> KindToks \cup {CloseTok}

\* the plain way to go on after a token of type ty: the marker
\* [Data:S(1,1),S(1)]; every other token of Follows(ty) is a variation
Plain(ty) ==
    CASE ty \in {"out", "prose", "close"} -> {PlainOpen}
      [] ty \in {"open", "nobr", "sep"} -> {PlainKind}
      [] ty = "kind" -> {LpTok}
      [] ty \in {"lp", "comma"} -> {PlainId}
      [] ty \in {"id", "word"} -> {CommaTok, RpTok}
      [] ty = "suf" -> {RpTok}
      [] ty = "rp" -> {PlainSep, CloseTok}

LastTy(ts) == IF ts = <<>> THEN "out" ELSE ts[Len(ts)].ty

RECURSIVE Blanks(_)
Blanks(n) == IF n = 0 THEN <<>> ELSE <<" ">> \o Blanks(n - 1)

RECURSIVE Render(_, _)
Render(ts, gs) ==
    IF ts = <<>> THEN <<>>
    ELSE Head(ts).ch \o Blanks(Head(gs)) \o Render(Tail(ts), Tail(gs))

RECURSIVE SumSeq(_)
SumSeq(gs) == IF gs = <<>> THEN 0 ELSE Head(gs) + SumSeq(Tail(gs))

NoGaps(ts) == [i \in DOMAIN ts |-> 0]

\* the number of variations and blanks of a text
RECURSIVE Odd(_, _, _)
Odd(ts, gs, ty) ==
    IF ts = <<>> THEN 0
    ELSE (IF Head(ts) \in Plain(ty) THEN 0 ELSE 1) + Head(gs)
             + Odd(Tail(ts), Tail(gs), Head(ts).ty)

(***************************************************************************)
(* The citation parser: actions.                                           *)
(***************************************************************************)
\* the answer text grows by one token and the blanks after it
Write(tok, g) ==
    /\ rpc = "writing"
    /\ Len(toks) < MaxToks
    /\ tok \in Follows(LastTy(toks))
    /\ Odd(Append(toks, tok), Append(gaps, g), "out") <= MaxOdd
    /\ toks' = Append(toks, tok)
    /\ gaps' = Append(gaps, g)
    /\ UNCHANGED <<refs, rpc>>
    /\ UNCHANGED othersOfRefer

\* utils.get_reference(response) is called on the text
Scan ==
    /\ rpc = "writing"
    /\ refs' = get_reference(Render(toks, gaps))
    /\ rpc' = "scanned"
    /\ UNCHANGED <<toks, gaps>>
    /\ UNCHANGED othersOfRefer

AllToks == OpenToks \cup KindToks \cup IdToks \cup SepToks
               \cup {WordTok, SufTok, LpTok, RpTok, CommaTok, CloseTok, ProseTok}

ReferNext ==
    \/ \E tok \in AllToks, g \in 0..MaxOdd : Write(tok, g)
    \/ Scan

(***************************************************************************)
(* The link renderer.                                                      *)
(***************************************************************************)
UpperChar(c) ==
    IF c \in LowerChars
    THEN UpperSeq[CHOOSE i \in DOMAIN LowerSeq : LowerSeq[i] = c]
    ELSE c

\* the title case of one character
TitleChar(c) == IF c = Eszett THEN <<"S", "s">> ELSE <<UpperChar(c)>>

\* str.capitalize(): the first character in title case, the rest in lower
\* case
Capitalize(s) ==
    IF s = <<>> THEN <<>> ELSE TitleChar(Head(s)) \o Lower(Tail(s))

\* str.rstrip('/')
RECURSIVE RStripSlash(_)
RStripSlash(s) ==
    IF s # <<>> /\ s[Len(s)] = "/" THEN RStripSlash(SubSeq(s, 1, Len(s) - 1))
    ELSE s

\* settings.reference_base_url as configured, and settings.website_address
ReferenceBaseUrl == <<"h", "/">>
WebsiteAddress == <<"w">>

\* settings.reference_url_base
ReferenceUrlBase ==
    IF ReferenceBaseUrl # <<>> THEN RStripSlash(ReferenceBaseUrl)
    ELSE WebsiteAddress

\* one line of generate_ref_links: refer.py line 45
RefLine(key, value, index_id) ==
    LET base_url == ReferenceUrlBase \o <<"/", "v", "1", "/", "r", "e", "f", "e", "r", "e", "n", "c", "e", "s">>
    IN  <<"[", "^", "D", "a", "t", "a", ":">> \o Capitalize(key) \o <<"(">> \o value \o <<")", "]", ":", " ", "[">>
            \o Capitalize(key) \o <<":", " ">> \o value \o <<"]", "(">> \o base_url
            \o <<"/">> \o index_id \o <<"/">> \o key \o <<"/">> \o value
            \o <<")">>

\* the orders a set may be iterated in
Perms(S) == {s \in [1..Cardinality(S) -> S] :
                \A i, j \in DOMAIN s : s[i] = s[j] => i = j}

\* for a dict, the orders its value sets may be iterated in
Orders(d) == {ord \in [DOMAIN d -> UNION {Perms(d[k]) : k \in DOMAIN d}] :
                 \A k \in DOMAIN d : ord[k] \in Perms(d[k])}

\* data.items(), each value set listed in the order it is iterated:
\* a sequence of <<key, values>>
Items(keys, ord) == [i \in DOMAIN keys |-> <<keys[i], ord[keys[i]]>>]

\* the inner loop stopping after the first id of a key
KeyLines_FirstOnly(key, values, index_id) ==
    IF values = <<>> THEN <<>> ELSE <<RefLine(key, Head(values), index_id)>>

\* the lines appended for one key: refer.py lines 44-45
RECURSIVE KeyLines(_, _, _)
KeyLines(key, values, index_id) ==
    IF values = <<>> THEN <<>>
    ELSE <<RefLine(key, Head(values), index_id)>>
             \o KeyLines(key, Tail(values), index_id)

\* lines, after the loops of refer.py lines 43-45
RECURSIVE RefLines(_, _)
RefLines(items, index_id) ==
    IF items = <<>> THEN <<>>
    ELSE KeyLines(Head(items)[1], Head(items)[2], index_id)
             \o RefLines(Tail(items), index_id)

\* "\n".join(lines)
RECURSIVE JoinLines(_)
JoinLines(lines) ==
    IF lines = <<>> THEN <<>>
    ELSE IF Len(lines) = 1 THEN Head(lines)
    ELSE Head(lines) \o <<"\n">> \o JoinLines(Tail(lines))

\* refer.generate_ref_links(data, index_id), data given as data.items()
generate_ref_links(items, index_id) == JoinLines(RefLines(items, index_id))

\* the mappings generate_ref_links is called with, as data.items()
LinkKeys == {<<"s", "o", "u", "r", "c", "e", "s">>, <<"r", "E">>, <<Eszett>>}
LinkIds == {<<"1", "5">>, <<"7">>}
LinkIndexIds == {<<"l", "o", "c", "a", "l">>, <<"b">>}

\* the sequences of at most n distinct elements of S
DistinctSeqs(S, n) ==
    UNION {{s \in [1..k -> S] : \A i, j \in 1..k : s[i] = s[j] => i = j} :
           k \in 0..n}

LinkInputs ==
    UNION {{[i \in DOMAIN ks |-> <<ks[i], vs[i]>>] :
               vs \in [DOMAIN ks -> DistinctSeqs(LinkIds, MaxIds)]} :
           ks \in DistinctSeqs(LinkKeys, MaxKeys)}

\* one call of generate_ref_links(data, index_id)
RenderLinks ==
    /\ lkpc = "idle"
    /\ link_text' = generate_ref_links(link_data, link_index)
    /\ lkpc' = "done"
    /\ UNCHANGED <<link_data, link_index, link_refs>>
    /\ UNCHANGED othersOfLinks

\* get_reference run on the rendered lines
RescanLinks ==
    /\ lkpc = "done"
    /\ link_refs' = get_reference(link_text)
    /\ lkpc' = "scanned"
    /\ UNCHANGED <<link_data, link_index, link_text>>
    /\ UNCHANGED othersOfLinks

LinkNext ==
    \/ RenderLinks
    \/ RescanLinks

\* the references block rendered whatever settings.show_references says
ReferencesBlock_Always(text, show, index_id, ord) ==
    IF get_reference(text) # EmptyDict
    THEN <<"\n">> \o generate_ref_links(Items(KeysInOrder(text), ord), index_id)
    ELSE <<>>

\* the references block of an answer text: main.py lines 146-148 and 205-207
ReferencesBlock(text, show, index_id, ord) ==
    LET reference == get_reference(text)
    IN  IF reference # EmptyDict /\ show
        THEN <<"\n">> \o generate_ref_links(Items(KeysInOrder(text), ord),
                                             index_id)
        ELSE <<>>

(***************************************************************************)
(* The search dispatcher: SearchEngineHandler, pinned to engine_type, over *)
(* the tables resolve_output_files stored in self.data.                    *)
(***************************************************************************)
INDEX_LOCAL == "local"
INDEX_GLOBAL == "global"
INDEX_DRIFT == "drift"
INDEX_BASIC == "basic"
ENTITY_TABLE == "entities"
TEXT_UNIT_TABLE == "text_units"
COMMUNITY_TABLE == "communities"
COMMUNITY_REPORT_TABLE == "community_reports"
RELATIONSHIP_TABLE == "relationships"

\* the required tables load_context asks resolve_output_files for
OutputList == {TEXT_UNIT_TABLE, ENTITY_TABLE, COMMUNITY_TABLE,
               COMMUNITY_REPORT_TABLE, RELATIONSHIP_TABLE}

\* resolve_output_files, single index: every name of output_list gets the
\* loaded table, or None when the storage has no such table
resolve_output_files == [OutputList -> {"None", "df"}]

\* k in self.data
Has(d, k) == k \in DOMAIN d

\* k in self.data and self.data[k] is not None
Loaded(d, k) == k \in DOMAIN d /\ d[k] # "None"

\* the condition of the global branch: base.py lines 134-137 and 262-265
GlobalReady(d) ==
    Has(d, ENTITY_TABLE) /\ Has(d, COMMUNITY_TABLE) /\ Has(d, COMMUNITY_REPORT_TABLE)

\* the condition of the local branch: base.py lines 154-157 and 277-280
LocalReady(d) ==
    \A k \in {ENTITY_TABLE, TEXT_UNIT_TABLE, RELATIONSHIP_TABLE,
              COMMUNITY_REPORT_TABLE} : Loaded(d, k)

\* the condition of the drift branch: base.py lines 180-183 and 298-301
DriftReady(d) ==
    \A k \in {ENTITY_TABLE, COMMUNITY_TABLE, COMMUNITY_REPORT_TABLE,
              TEXT_UNIT_TABLE, RELATIONSHIP_TABLE} : Loaded(d, k)

\* the condition of the basic branch: base.py lines 202 and 315
BasicReady(d) == Loaded(d, TEXT_UNIT_TABLE)

\* the branch search and stream_search take: the strategy they call, or
\* "none" for the not-configured branch
Branch(et, d) ==
    IF et = INDEX_GLOBAL /\ GlobalReady(d) THEN INDEX_GLOBAL
    ELSE IF et = INDEX_LOCAL /\ LocalReady(d) THEN INDEX_LOCAL
    ELSE IF et = INDEX_DRIFT /\ DriftReady(d) THEN INDEX_DRIFT
    ELSE IF BasicReady(d) THEN INDEX_BASIC
    ELSE "none"

\* str(request.model) for the handler pinned to et
ModelName(et) ==
    CASE et = INDEX_LOCAL -> <<"l", "o", "c", "a", "l">>
      [] et = INDEX_GLOBAL -> <<"g", "l", "o", "b", "a", "l">>
      [] et = INDEX_DRIFT -> <<"d", "r", "i", "f", "t">>
      [] OTHER -> <<"b", "a", "s", "i", "c">>

\* the tokens a strategy may stream, and the two tokens stream_search makes up
StrategyTexts ==
    {<<"x">>,
     <<"[", "D", "a", "t", "a", ":", "S", "o", "u", "r", "c", "e", "s", "(", "1", ")", "]">>,
     <<"[", "D", "a", "t", "a", ":", "C", "l", "a", "i", "m", "s", "(", "2", ")", "]">>}
Token(src, text) == [src |-> src, text |-> text]
NoToken == Token("none", <<>>)
ErrorToken == Token("error", <<"E", "r", "r", "o", "r", " ", "d", "u", "r", "i", "n", "g", " ", "s", "e", "a", "r", "c", "h">>)
NotConfiguredToken == Token("notconf", <<"S", "e", "a", "r", "c", "h", " ", "e", "n", "g", "i", "n", "e", " ", "i", "s", " ", "n", "o", "t", " ", "p", "r", "o", "p", "e", "r", "l", "y", " ", "c", "o", "n", "f", "i", "g", "u", "r", "e", "d">>)

\* the dict search returns: its keys, and what the model keeps of its values
Envelope(kind, error, by, answer, keys) ==
    [kind |-> kind, error |-> error, by |-> by, answer |-> answer, keys |-> keys]

NoResult == Envelope("none", "", "none", <<>>, {})

\* the except clause of search left out: the exception leaves search
SearchExcept_Reraise == Envelope("raised", "exception", "none", <<>>, {})

\* what the except clause of search returns: base.py lines 225-231
SearchExcept ==
    Envelope("error", "exception", "none", ErrorToken.text,
             {"error", "answer", "query"})

\* how a call of an api strategy function ends: it returns (response,
\* context_data) with a dict context_data, it raises, or it returns a
\* context_data that has no get method
StrategyOutcomes == {"ok", "raise", "no_get"}

\* SearchEngineHandler.search: the envelope returned when the strategy called
\* (if any) ends as outcome says, with the response text
SearchResult(et, d, outcome, text) ==
    LET b == Branch(et, d)
    IN  IF b = "none"
        THEN Envelope("error", "Missing required data", "none",
                      NotConfiguredToken.text, {"error", "answer", "query"})
        ELSE IF outcome # "ok" THEN SearchExcept
        ELSE Envelope("answer", "", b, text,
                      {"answer", "query", "context", "sources"})

\* await handler.search(query): one call to the branch's strategy, which
\* returns or raises
Search(outcome, text) ==
    /\ hpc = "idle"
    /\ hpc' = "sync_done"
    /\ called' = IF Branch(engine_type, data) = "none" THEN called
                 ELSE Append(called, Branch(engine_type, data))
    /\ result' = SearchResult(engine_type, data, outcome, text)
    /\ strategy_end' = IF Branch(engine_type, data) = "none" THEN "none"
                       ELSE outcome
    /\ UNCHANGED <<engine_type, data, show_references, gen, yielded, pending,
                   raisedAt, wpc, token_index, full_response, events, status,
                   response>>
    /\ UNCHANGED othersOfSearch

\* the rest of handle_sync_response, and the except clause of
\* chat_completions: main.py lines 140-171 and 255-257
SyncRespond ==
    /\ hpc = "sync_done"
    /\ hpc' = "sync_sent"
    /\ IF result.kind = "raised"
       THEN status' = 500 /\ response' = <<>>
       ELSE /\ status' = 200
            /\ \E ord \in Orders(get_reference(result.answer)) :
                  response' = result.answer
                      \o ReferencesBlock(result.answer, show_references,
                                         ModelName(engine_type), ord)
    /\ UNCHANGED <<engine_type, data, show_references, called, result, gen,
                   yielded, pending, raisedAt, wpc, token_index, full_response,
                   events, strategy_end>>
    /\ UNCHANGED othersOfSearch

\* handle_stream_response: the response starts consuming wrapper_astream_search
StreamOpen ==
    /\ hpc = "idle"
    /\ hpc' = "stream"
    /\ status' = 200
    /\ UNCHANGED <<response, strategy_end>>
    /\ UNCHANGED <<engine_type, data, show_references, called, result, gen,
                   yielded, pending, raisedAt, wpc, token_index, full_response,
                   events>>
    /\ UNCHANGED othersOfSearch

\* stream_search runs to its branch: it starts the branch's strategy stream,
\* or yields the not-configured token
GenStart ==
    /\ hpc = "stream" /\ wpc = "loop" /\ gen = "new"
    /\ IF Branch(engine_type, data) = "none"
       THEN /\ pending' = NotConfiguredToken
            /\ yielded' = Append(yielded, NotConfiguredToken)
            /\ gen' = "last"
            /\ called' = called
       ELSE /\ called' = Append(called, Branch(engine_type, data))
            /\ gen' = "iter"
            /\ UNCHANGED <<pending, yielded>>
    /\ UNCHANGED <<engine_type, data, show_references, hpc, result, raisedAt,
                   wpc, token_index, full_response, events>>
    /\ UNCHANGED <<othersOfSearch, httpVars>>

\* the except clause yielding its token and going on with the strategy stream
ExceptYield_Continues == [token |-> ErrorToken, gen |-> "iter"]

\* stream_search without its except clause: the exception leaves the generator
ExceptYield_Propagates == [token |-> NoToken, gen |-> "raised"]

\* how stream_search goes on when the strategy stream raises: the except
\* clause, base.py lines 329-331
ExceptYield == [token |-> ErrorToken, gen |-> "last"]

\* the strategy yields a chunk and stream_search yields it on
StrategyYield(text) ==
    /\ hpc = "stream" /\ gen = "iter" /\ pending = NoToken
    /\ Len(yielded) < MaxChunks
    /\ pending' = Token("strategy", text)
    /\ yielded' = Append(yielded, Token("strategy", text))
    /\ UNCHANGED <<engine_type, data, show_references, hpc, called, result, gen,
                   raisedAt, wpc, token_index, full_response, events>>
    /\ UNCHANGED <<othersOfSearch, httpVars>>

\* the strategy raises: stream_search yields one explanatory token
StrategyRaise ==
    /\ hpc = "stream" /\ gen = "iter" /\ pending = NoToken
    /\ raisedAt' = Len(yielded)
    /\ gen' = ExceptYield.gen
    /\ pending' = IF ExceptYield.gen = "raised" THEN pending ELSE ExceptYield.token
    /\ yielded' = IF ExceptYield.gen = "raised" THEN yielded
                  ELSE Append(yielded, ExceptYield.token)
    /\ UNCHANGED <<engine_type, data, show_references, hpc, called, result,
                   wpc, token_index, full_response, events>>
    /\ UNCHANGED <<othersOfSearch, httpVars>>

\* the strategy stream is exhausted, or stream_search is resumed after its
\* last yield: the generator returns
GenReturn ==
    /\ hpc = "stream" /\ gen \in {"iter", "last"} /\ pending = NoToken
    /\ gen' = "done"
    /\ UNCHANGED <<engine_type, data, show_references, hpc, called, result,
                   yielded, pending, raisedAt, wpc, token_index, full_response,
                   events>>
    /\ UNCHANGED <<othersOfSearch, httpVars>>

Chunk(content) == [ty |-> "chunk", content |-> content]
FinalChunk(content) == [ty |-> "final", content |-> content]
DoneEvent == [ty |-> "done", content |-> <<>>]

\* the body of the async for of wrapper_astream_search: main.py lines 179-202
WrapperTake ==
    /\ hpc = "stream" /\ wpc = "loop" /\ pending # NoToken
    /\ pending' = NoToken
    /\ token_index' = token_index + 1
    /\ IF token_index = 0
       THEN UNCHANGED <<events, full_response>>
       ELSE /\ events' = Append(events, Chunk(pending.text))
            /\ full_response' = full_response \o pending.text
    /\ UNCHANGED <<engine_type, data, show_references, hpc, called, result, gen,
                   yielded, raisedAt, wpc>>
    /\ UNCHANGED <<othersOfSearch, httpVars>>

\* the async for of wrapper_astream_search ends: the generator has returned
LoopOver == hpc = "stream" /\ wpc = "loop" /\ pending = NoToken /\ gen = "done"

\* the content of the last chunk: main.py lines 204-207
FinalContent(text, show, index_id, ord) ==
    ReferencesBlock(text, show, index_id, ord)

\* after the loop: the last chunk, main.py lines 204-226
WrapperFinal ==
    /\ LoopOver
    /\ \E ord \in Orders(get_reference(full_response)) :
          events' = Append(events,
              FinalChunk(FinalContent(full_response, show_references,
                                      ModelName(engine_type), ord)))
    /\ wpc' = "final"
    /\ UNCHANGED <<engine_type, data, show_references, hpc, called, result, gen,
                   yielded, pending, raisedAt, token_index, full_response>>
    /\ UNCHANGED <<othersOfSearch, httpVars>>

\* the terminal event: main.py line 227
WrapperDone ==
    /\ hpc = "stream" /\ wpc = "final"
    /\ events' = Append(events, DoneEvent)
    /\ wpc' = "done"
    /\ UNCHANGED <<engine_type, data, show_references, hpc, called, result, gen,
                   yielded, pending, raisedAt, token_index, full_response>>
    /\ UNCHANGED <<othersOfSearch, httpVars>>

SearchNext ==
    \/ \E outcome \in StrategyOutcomes, text \in StrategyTexts : Search(outcome, text)
    \/ SyncRespond
    \/ StreamOpen
    \/ GenStart
    \/ \E text \in StrategyTexts : StrategyYield(text)
    \/ StrategyRaise
    \/ GenReturn
    \/ WrapperTake
    \/ WrapperFinal
    \/ WrapperDone

(***************************************************************************)
(* The record store: get_index_data over one table file.  A table is       *)
(* [file, cols, ints, rows]: whether pd.read_parquet can read the file,    *)
(* the columns of the DataFrame, whether its all-digit columns are stored  *)
(* as int64, and its rows (column -> cell, the cell as str() shows it).    *)
(* The records of the graphrag library are [kind, id, short_id].           *)
(***************************************************************************)
DigitSeq == <<"0", "1", "2", "3", "4", "5", "6", "7", "8", "9">>

\* int(s) for a string of digits
RECURSIVE IntOf(_)
IntOf(s) ==
    IF s = <<>> THEN 0
    ELSE 10 * IntOf(SubSeq(s, 1, Len(s) - 1))
             + (CHOOSE i \in DOMAIN DigitSeq : DigitSeq[i] = s[Len(s)]) - 1

\* int(x) raises ValueError (or TypeError, for None)
IntRaises(x) == ~IsDigitStr(x)

\* str(idx) for the row label idx of a RangeIndex
StrOfIndex(idx) == <<DigitSeq[idx + 1]>>

NONE == <<"N", "o", "n", "e">>
ERROR_ID == <<"e", "r", "r", "o", "r">>
NOT_FOUND_ID == <<"n", "o", "t", "_", "f", "o", "u", "n", "d">>

\* "alias_id" stands for the alias column of the kind of the table:
\* entity_id, text_unit_id, report_id or relationship_id
Columns == {"id", "short_id", "human_readable_id", "alias_id"}
CellsOf(c) ==
    CASE c = "id" -> {<<"1">>, <<"a">>}
      [] c = "short_id" -> {<<"5">>, <<"s">>}
      [] c = "human_readable_id" -> {<<"9">>}
      [] c = "alias_id" -> {<<"7">>}

RowsOf(cols) == {r \in [cols -> UNION {CellsOf(c) : c \in Columns}] :
                    \A c \in cols : r[c] \in CellsOf(c)}

NoTable(file) == [file |-> file, cols |-> {}, ints |-> FALSE, rows |-> <<>>]

Tables ==
    {NoTable("absent"), NoTable("unreadable")}
        \cup UNION {UNION {{[file |-> "ok", cols |-> cols, ints |-> ints, rows |-> rows] :
                               rows \in [1..n -> RowsOf(cols)], ints \in BOOLEAN} :
                           n \in 0..(IF cols = {} THEN 0 ELSE MaxRows)} :
                    cols \in SUBSET Columns}

\* the ids a client may ask for
RequestIds ==
    {<<"1">>, <<"0", "1">>, <<"5">>, <<"9">>, <<"a">>, <<"0">>, <<"2">>, <<"7">>}

Datatypes == {"documents", "sources", "entities", "reports", "relationships"}

\* what the graphrag adapter does in one call: it raises or returns a list,
\* and the short_id it gives a record is the row label, the row's
\* human_readable_id, or None
Libs == [adapter : {"raise", "keyerror_entity_ids", "list"},
         short_id : {"index", "human_readable_id", "none"}]
NoLib == [adapter |-> "raise", short_id |-> "none"]

Rec(kind, rid, short_id) == [kind |-> kind, id |-> rid, short_id |-> short_id]
NoRecord == Rec("none", <<>>, <<>>)
Ret(rec) == [st |-> "ret", rec |-> rec]
Exc == [st |-> "exc", rec |-> NoRecord]

Min(S) == CHOOSE x \in S : \A y \in S : x <= y

\* df[df[c].astype(str) == str(id)]: the labels of the matching rows
StrMatch(t, c, id) == {i \in DOMAIN t.rows : t.rows[i][c] = id}

\* df[c].dtype == 'int64' or 'int32'
IntDtype(t, c) == t.ints /\ \A i \in DOMAIN t.rows : IsDigitStr(t.rows[i][c])

\* try: int_id = int(id); if the dtype is integer: df[df[c] == int_id]
IntMatch(t, c, id) ==
    IF IntRaises(id) \/ ~IntDtype(t, c) THEN {}
    ELSE {i \in DOMAIN t.rows : IntOf(t.rows[i][c]) = IntOf(id)}

\* the first non-empty set of a sequence of sets
RECURSIVE FirstNonEmpty(_)
FirstNonEmpty(ms) ==
    IF ms = <<>> THEN {}
    ELSE IF Head(ms) # {} THEN Head(ms) ELSE FirstNonEmpty(Tail(ms))

\* the direct DataFrame lookup of get_entity: lines 241-299
EntityMatch(t, id) ==
    FirstNonEmpty(<<StrMatch(t, "id", id), IntMatch(t, "id", id)>>
        \o (IF "short_id" \in t.cols
            THEN <<StrMatch(t, "short_id", id), IntMatch(t, "short_id", id)>>
            ELSE <<>>)
        \o (IF "human_readable_id" \in t.cols
            THEN <<StrMatch(t, "human_readable_id", id)>> ELSE <<>>)
        \o (IF "alias_id" \in t.cols
            THEN <<StrMatch(t, "alias_id", id)>> ELSE <<>>))

\* the direct DataFrame lookup of get_source and get_relationship
IdOrShortIdMatch(t, id) ==
    FirstNonEmpty(<<StrMatch(t, "id", id)>>
        \o (IF "short_id" \in t.cols THEN <<StrMatch(t, "short_id", id)>> ELSE <<>>))

\* isinstance(id, int): the id is the str path parameter of the endpoint
IdIsInt == FALSE

\* the direct DataFrame lookup of get_report: lines 586-636
ReportMatch(t, id) ==
    FirstNonEmpty(<<StrMatch(t, "id", id), IntMatch(t, "id", id)>>
        \o (IF "short_id" \in t.cols THEN <<StrMatch(t, "short_id", id)>> ELSE <<>>)
        \o (IF "human_readable_id" \in t.cols
            THEN <<StrMatch(t, "human_readable_id", id)>> ELSE <<>>)
        \o (IF IdIsInt /\ IntOf(id) < Len(t.rows)
            THEN <<{IntOf(id) + 1}>> ELSE <<>>))

\* the record a get_* function builds from the first matching row:
\* id = str(row['id']), short_id = str(id)
FromRow(kind, t, m, id) == Ret(Rec(kind, t.rows[Min(m)]["id"], id))

\* the placeholders of a kind
ErrorPlaceholder(kind) == Rec(kind, ERROR_ID, <<"0">>)
NotFoundPlaceholder(kind, id) == Rec(kind, NOT_FOUND_ID, id)

\* the list a graphrag adapter returns for the table, as lib says
LibraryList(kind, t, lib) ==
    [i \in DOMAIN t.rows |->
        Rec(kind,
            IF "id" \in t.cols THEN t.rows[i]["id"] ELSE NONE,
            CASE lib.short_id = "index" -> StrOfIndex(i - 1)
              [] lib.short_id = "human_readable_id" ->
                     IF "human_readable_id" \in t.cols
                     THEN t.rows[i]["human_readable_id"] ELSE NONE
              [] OTHER -> NONE)]

\* custom_read_entities(entity_df): lines 73-144
custom_read_entities(t) ==
    IF "id" \notin t.cols THEN <<>>
    ELSE [i \in DOMAIN t.rows |->
             Rec("Entity", t.rows[i]["id"],
                 IF "short_id" \in t.cols THEN t.rows[i]["short_id"]
                 ELSE StrOfIndex(i - 1))]

\* what an adapter call gives: a list, or an exception
Listed(list) == [st |-> "list", list |-> list]
AdapterRaised == [st |-> "raise", list |-> <<>>]

\* the adapters of get_entity: lines 350-365
EntityAdapter(t, lib) ==
    LET entities == custom_read_entities(t)
    IN  IF entities # <<>> THEN Listed(entities)
        ELSE CASE lib.adapter = "list" -> Listed(LibraryList("Entity", t, lib))
               [] lib.adapter = "keyerror_entity_ids" -> Listed(<<>>)
               [] OTHER -> AdapterRaised

\* read_indexer_text_units, read_indexer_reports, read_indexer_relationships
LibraryAdapter(kind, t, lib) ==
    IF lib.adapter = "list" THEN Listed(LibraryList(kind, t, lib))
    ELSE AdapterRaised

\* for x in xs: if int(x.short_id) == int(id): return x
\* the outcome: "found" with the record, "raise", or "none"
RECURSIVE ShortIdLoop(_, _)
ShortIdLoop(xs, id) ==
    IF xs = <<>> THEN [st |-> "none", rec |-> NoRecord]
    ELSE IF IntRaises(Head(xs).short_id) \/ IntRaises(id)
         THEN [st |-> "raise", rec |-> NoRecord]
         ELSE IF IntOf(Head(xs).short_id) = IntOf(id)
              THEN [st |-> "found", rec |-> Head(xs)]
              ELSE ShortIdLoop(Tail(xs), id)

\* the same loop inside try/except (ValueError, TypeError): pass
RECURSIVE GuardedShortIdLoop(_, _)
GuardedShortIdLoop(xs, id) ==
    IF xs = <<>> THEN [st |-> "none", rec |-> NoRecord]
    ELSE IF ~IntRaises(Head(xs).short_id) /\ ~IntRaises(id)
             /\ IntOf(Head(xs).short_id) = IntOf(id)
         THEN [st |-> "found", rec |-> Head(xs)]
         ELSE GuardedShortIdLoop(Tail(xs), id)

\* for x in xs: if str(x.id) == str(id): return x
IdLoop(xs, id) ==
    LET m == {i \in DOMAIN xs : xs[i].id = id}
    IN  IF m = {} THEN [st |-> "none", rec |-> NoRecord]
        ELSE [st |-> "found", rec |-> xs[Min(m)]]

\* the two loops of get_entity, get_report and get_relationship
ShortIdThenId(xs, id) ==
    LET a == ShortIdLoop(xs, id)
    IN  IF a.st = "none" THEN IdLoop(xs, id) ELSE a

\* the two loops of get_source: lines 505-522
IdThenShortId(xs, id) ==
    LET a == IdLoop(xs, id)
    IN  IF a.st = "none" THEN GuardedShortIdLoop(xs, id) ELSE a

\* the except adapter_error clause: the scan of the raw rows over the fields
\* 'id', 'short_id' and the alias column of the kind, then the not-found
\* placeholder; with no row the clause falls through
RawScan(kind, t, id) ==
    LET m == {i \in DOMAIN t.rows :
                 \E f \in t.cols \cap {"id", "short_id", "alias_id"} :
                     t.rows[i][f] = id}
    IN  IF Len(t.rows) > 0
        THEN IF m # {}
             THEN Ret(Rec(kind,
                          IF "id" \in t.cols THEN t.rows[Min(m)]["id"] ELSE id,
                          id))
             ELSE Ret(NotFoundPlaceholder(kind, id))
        ELSE Exc

\* the adapter part of a get_* function: the inner try, its except clause,
\* and the raise ValueError("Not Found ...") after them
AdapterPart(kind, t, id, adapted, scan) ==
    IF adapted.st = "raise" \/ scan.st = "raise" THEN RawScan(kind, t, id)
    ELSE IF scan.st = "found" THEN Ret(scan.rec)
    ELSE Exc

\* the outer except clause re-raising instead of returning the placeholder
OuterExcept_Reraise(kind, r) == r

\* the outer except Exception clause of a get_* function
OuterExcept(kind, r) ==
    IF r.st = "exc" THEN Ret(ErrorPlaceholder(kind)) ELSE r

\* get_entity: lines 218-425
get_entity(t, id, lib) ==
    LET m == IF "id" \in t.cols THEN EntityMatch(t, id) ELSE {}
        adapted == EntityAdapter(t, lib)
    IN  OuterExcept("Entity",
            IF t.file # "ok" THEN Exc
            ELSE IF m # {} THEN FromRow("Entity", t, m, id)
            ELSE AdapterPart("Entity", t, id, adapted,
                             ShortIdThenId(adapted.list, id)))

\* get_source: lines 436-563
get_source(t, id, lib) ==
    LET m == IF "id" \in t.cols THEN IdOrShortIdMatch(t, id) ELSE {}
        adapted == LibraryAdapter("TextUnit", t, lib)
    IN  OuterExcept("TextUnit",
            IF t.file # "ok" THEN Exc
            ELSE IF m # {} THEN FromRow("TextUnit", t, m, id)
            ELSE AdapterPart("TextUnit", t, id, adapted,
                             IdThenShortId(adapted.list, id)))

\* get_report: lines 566-771
get_report(t, id, lib) ==
    LET m == IF "id" \in t.cols THEN ReportMatch(t, id) ELSE {}
        adapted == LibraryAdapter("CommunityReport", t, lib)
    IN  OuterExcept("CommunityReport",
            IF t.file # "ok" THEN Exc
            ELSE IF m # {} THEN FromRow("CommunityReport", t, m, id)
            ELSE AdapterPart("CommunityReport", t, id, adapted,
                             ShortIdThenId(adapted.list, id)))

\* get_relationship: lines 774-895
get_relationship(t, id, lib) ==
    LET m == IF "id" \in t.cols THEN IdOrShortIdMatch(t, id) ELSE {}
        adapted == LibraryAdapter("Relationship", t, lib)
    IN  OuterExcept("Relationship",
            IF t.file # "ok" THEN Exc
            ELSE IF m # {} THEN FromRow("Relationship", t, m, id)
            ELSE AdapterPart("Relationship", t, id, adapted,
                             ShortIdThenId(adapted.list, id)))

\* get_document: lines 962-1051
get_document(t, id) ==
    OuterExcept("dict",
        IF t.file # "ok" THEN Exc
        ELSE IF "id" \notin t.cols THEN Ret(Rec("dict", ERROR_ID, id))
        ELSE IF StrMatch(t, "id", id) # {}
             THEN FromRow("dict", t, StrMatch(t, "id", id), id)
             ELSE Ret(NotFoundPlaceholder("dict", id)))

\* the kind of record a datatype asks for
KindOf(datatype) ==
    CASE datatype = "documents" -> "dict"
      [] datatype = "sources" -> "TextUnit"
      [] datatype = "entities" -> "Entity"
      [] datatype = "reports" -> "CommunityReport"
      [] datatype = "relationships" -> "Relationship"

\* get_index_data: lines 38-70
get_index_data(t, datatype, id, lib) ==
    CASE datatype = "documents" -> get_document(t, id)
      [] datatype = "sources" -> get_source(t, id, lib)
      [] datatype = "entities" -> get_entity(t, id, lib)
      [] datatype = "reports" -> get_report(t, id, lib)
      [] datatype = "relationships" -> get_relationship(t, id, lib)
      [] OTHER -> Exc

\* one call of get_index_data, the graphrag adapter behaving as lib says
Resolve(lib) ==
    /\ ipc = "idle"
    /\ library' = lib
    /\ returned' = get_index_data(store, req.datatype, req.id, lib)
    /\ ipc' = "done"
    /\ UNCHANGED <<store, req, previous>>
    /\ UNCHANGED othersOfStore

\* the adapter behaving differently in the second call: it raises
AdapterOnRepeat_Raises(lib) == NoLib

\* how the graphrag adapter behaves in a second call over the same table:
\* as in the first, its code and its input being the same
AdapterOnRepeat(lib) == lib

\* the same request resolved once more, the table file unchanged
ResolveAgain ==
    /\ ipc = "done"
    /\ previous' = returned
    /\ library' = AdapterOnRepeat(library)
    /\ returned' = get_index_data(store, req.datatype, req.id, library')
    /\ ipc' = "again"
    /\ UNCHANGED <<store, req>>
    /\ UNCHANGED othersOfStore

StoreNext ==
    \/ \E lib \in Libs : Resolve(lib)
    \/ ResolveAgain

(***************************************************************************)
(* The record lookup endpoint: GET /v1/references/{index_id}/{datatype}/   *)
(* {id}.                                                                   *)
(***************************************************************************)
\* the datatype path parameters a client may send
PathDatatypes == Datatypes \cup {"claims"}

\* every datatype taken as supported
Supported_Any(datatype) == TRUE

\* datatype in ["entities", "sources", "reports", "relationships", "documents"]
Supported(datatype) == datatype \in Datatypes

\* the kind-specific template read and rendered with the record
RenderTemplate(datatype, rec) == [st |-> "ret", html |-> <<datatype, rec>>]

\* the whole handler, the graphrag adapter behaving as lib says
ServeReference(lib) ==
    /\ epc = "idle"
    /\ epc' = "done"
    /\ library' = lib
    /\ IF ~data_dir \/ ~Supported(req.datatype)
       THEN /\ ref_status' = 404
            /\ UNCHANGED <<returned, table_read>>
       ELSE LET r == get_index_data(store, req.datatype, req.id, lib)
            IN  /\ returned' = r
                /\ table_read' = (req.datatype \in Datatypes)
                /\ ref_status' =
                      IF r.st = "ret"
                         /\ RenderTemplate(req.datatype, r.rec).st = "ret"
                      THEN 200 ELSE 500
    /\ UNCHANGED <<store, req, ipc, previous, data_dir>>
    /\ UNCHANGED othersOfEndpoint

EndpointNext == \E lib \in Libs : ServeReference(lib)

(***************************************************************************)
(* The server: the four engine globals, startup() and the requests that    *)
(* read them.  Run 0 of startup() is the one of startup_event; run r is    *)
(* the one the middleware starts for request r.  A step of a coroutine     *)
(* goes from one await to the next.                                        *)
(***************************************************************************)
Requests == 1..MaxRequests
Runs == {0} \cup Requests

Slots == <<"local_search", "global_search", "drift_search", "basic_search">>
SlotNames == {Slots[i] : i \in DOMAIN Slots}

\* a SearchEngineHandler object: the one run p built for a global
Handler(p, slot) == [run |-> p, slot |-> slot]
Handlers == {Handler(p, slot) : p \in Runs, slot \in SlotNames}
NoEngine == [run |-> -1, slot |-> "None"]

\* the engine name each load_*_search_engine passes to set_search_engine
EngineName(slot) ==
    CASE slot = "local_search" -> "LocalSearch"
      [] slot = "global_search" -> "GlobalSearch"
      [] slot = "drift_search" -> "DRIFTSearch"
      [] slot = "basic_search" -> "BasicSearch"

\* engine_map of set_search_engine
engine_map(engine_name) ==
    CASE engine_name = "LocalSearch" -> INDEX_LOCAL
      [] engine_name = "GlobalSearch" -> INDEX_GLOBAL
      [] engine_name = "DRIFTSearch" -> INDEX_DRIFT
      [] engine_name = "BasicSearch" -> INDEX_BASIC

\* the objects a global or a request refers to; the others are freed
Collect(pn, e, sb) ==
    [h \in Handlers |->
        IF (\E slot \in SlotNames : e[slot] = h) \/ (\E r \in Requests : sb[r] = h)
        THEN pn[h] ELSE "unset"]

\* the guard left out: the engines are taken as initialized
AllEngines_Unchecked(e) == TRUE

\* all([local_search, global_search, drift_search, basic_search])
AllEngines(e) == \A slot \in SlotNames : e[slot] # NoEngine

\* the model names a request may carry
ModelNames == {INDEX_LOCAL, INDEX_GLOBAL, INDEX_DRIFT, INDEX_BASIC, "gpt"}

\* the selection with the drift branch left out
SelectEngine_NoDrift(model, e) ==
    IF model = INDEX_GLOBAL THEN e["global_search"]
    ELSE IF model = INDEX_LOCAL THEN e["local_search"]
    ELSE e["basic_search"]

\* chat_completions: the engine a model name selects
SelectEngine(model, e) ==
    IF model = INDEX_GLOBAL THEN e["global_search"]
    ELSE IF model = INDEX_LOCAL THEN e["local_search"]
    ELSE IF model = INDEX_DRIFT THEN e["drift_search"]
    ELSE e["basic_search"]

\* health_check answering 200 whatever the globals hold
HealthStatus_Always200(e) == 200

\* health_check: the status answered
HealthStatus(e) == IF ~AllEngines(e) THEN 503 ELSE 200

\* what startup() may find on disk
StartupFiles == {"no_root", "no_data_dir", "no_settings", "ok"}
\* how load_context and the check of the required tables may end: it raises
\* FileNotFoundError or another exception, a required table is None (so
\* .empty raises into the outer except), a required table is empty, or all
\* three hold rows
ContextOutcomes == {"file_not_found", "error", "none_table", "empty_table", "ok"}

\* how a run that set no engine ended: by one of the early returns (the root
\* directory, the data directory, settings.yaml, the configuration or a
\* required table is missing), or in an except clause that only logs
EndOf(reason) ==
    IF reason \in {"no_root", "no_data_dir", "no_settings", "file_not_found",
                   "empty_table"}
    THEN "returned_early" ELSE "raised"

\* the statement a startup run stands at: a load, the await of load_context,
\* or, when startup() was awaited by the middleware and has ended, the line
\* after that await
Point(p) ==
    IF p \in Requests /\ spc[p] = "done" /\ qpc[p] = "startup" THEN "resume"
    ELSE spc[p]

\* whether the coroutine gives the event loop back at that statement.
\* load_context awaits the storage; load_*_search_engine and
\* set_search_engine hold no await of a pending operation, so awaiting them
\* runs them to their return inside the caller's step, and so does the
\* return of startup() into the middleware
Suspends(point) == point \notin SlotNames \cup {"resume"}

\* the event loop runs one coroutine until it suspends: self may take a step
\* when no other run is between two statements of one step
LoopFree(self) == \A p \in Runs \ {self} : Suspends(Point(p))

\* the loader returning None as well, as if its except clause could be taken
LoaderResults_MayFail(slot) == BOOLEAN

\* whether load_*_search_engine returns a handler: the constructor stores
\* its two arguments and set_search_engine looks a name up and returns a
\* bool, so no statement of the try block raises and the except clause
\* that returns None is never taken
LoaderResults(slot) == {TRUE}

\* startup() from its first line to its first await
StartupBegin(p, files) ==
    IF files = "ok"
    THEN /\ spc' = [spc EXCEPT ![p] = "context"]
         /\ UNCHANGED startup_end
    ELSE /\ spc' = [spc EXCEPT ![p] = "done"]
         /\ startup_end' = [startup_end EXCEPT ![p] = EndOf(files)]

\* startup_event: run 0
StartupEvent(files) ==
    /\ spc[0] = "idle"
    /\ LoopFree(0)
    /\ StartupBegin(0, files)
    /\ UNCHANGED <<engines, pinned, qpc, qmodel, served_by, qstatus, health>>
    /\ UNCHANGED othersOfServer

\* startup(): load_context returns or raises, and the required tables are
\* checked
StartupContext(p, outcome) ==
    /\ spc[p] = "context"
    /\ LoopFree(p)
    /\ IF outcome = "ok"
       THEN /\ spc' = [spc EXCEPT ![p] = Slots[1]]
            /\ UNCHANGED startup_end
       ELSE /\ spc' = [spc EXCEPT ![p] = "done"]
            /\ startup_end' = [startup_end EXCEPT ![p] = EndOf(outcome)]
    /\ UNCHANGED <<engines, pinned, qpc, qmodel, served_by, qstatus, health>>
    /\ UNCHANGED othersOfServer

\* startup(): one of the four assignments; the load returns the handler it
\* built and pinned, or None when it raised
StartupLoad(p, ok) ==
    /\ spc[p] \in SlotNames
    /\ LoopFree(p)
    /\ ok \in LoaderResults(spc[p])
    /\ LET slot == spc[p]
           i == CHOOSE k \in DOMAIN Slots : Slots[k] = slot
       IN  /\ engines' = [engines EXCEPT
                             ![slot] = IF ok THEN Handler(p, slot) ELSE NoEngine]
           /\ pinned' = Collect([pinned EXCEPT ![Handler(p, slot)] =
                                      IF ok THEN engine_map(EngineName(slot)) ELSE @],
                                 engines', served_by)
           /\ IF i < Len(Slots)
              THEN /\ spc' = [spc EXCEPT ![p] = Slots[i + 1]]
                   /\ UNCHANGED startup_end
              ELSE /\ spc' = [spc EXCEPT ![p] = "done"]
                   /\ startup_end' = [startup_end EXCEPT ![p] = "loaded"]
    /\ UNCHANGED <<qpc, qmodel, served_by, qstatus, health>>
    /\ UNCHANGED othersOfServer

\* check_search_engines, up to its first await: requests are served once
\* startup_event is over
Middleware(r, files) ==
    /\ qpc[r] = "new"
    /\ spc[0] = "done"
    /\ LoopFree(r)
    /\ IF ~AllEngines(engines)
       THEN /\ qpc' = [qpc EXCEPT ![r] = "startup"]
            /\ StartupBegin(r, files)
       ELSE /\ qpc' = [qpc EXCEPT ![r] = "passed"]
            /\ UNCHANGED <<spc, startup_end>>
    /\ UNCHANGED <<engines, pinned, qmodel, served_by, qstatus, health>>
    /\ UNCHANGED othersOfServer

\* check_search_engines after await startup()
MiddlewareResume(r) ==
    /\ qpc[r] = "startup"
    /\ spc[r] = "done"
    /\ LoopFree(r)
    /\ IF ~AllEngines(engines)
       THEN /\ qpc' = [qpc EXCEPT ![r] = "done"]
            /\ qstatus' = [qstatus EXCEPT ![r] = 503]
       ELSE /\ qpc' = [qpc EXCEPT ![r] = "passed"]
            /\ UNCHANGED qstatus
    /\ UNCHANGED <<engines, pinned, spc, startup_end, qmodel, served_by, health>>
    /\ UNCHANGED othersOfServer

\* chat_completions, from its guard to the call of the selected engine
ChatCompletions(r, model) ==
    /\ qpc[r] = "passed"
    /\ LoopFree(r)
    /\ qmodel' = [qmodel EXCEPT ![r] = model]
    /\ IF ~AllEngines(engines)
       THEN /\ qpc' = [qpc EXCEPT ![r] = "done"]
            /\ qstatus' = [qstatus EXCEPT ![r] = 503]
            /\ UNCHANGED served_by
       ELSE /\ qpc' = [qpc EXCEPT ![r] = "dispatched"]
            /\ served_by' = [served_by EXCEPT ![r] = SelectEngine(model, engines)]
            /\ UNCHANGED qstatus
    /\ UNCHANGED <<engines, pinned, spc, startup_end, health>>
    /\ UNCHANGED othersOfServer

\* the response of the dispatched request: a method of None raises
\* AttributeError into the except clause of chat_completions
Respond(r) ==
    /\ qpc[r] = "dispatched"
    /\ LoopFree(r)
    /\ qpc' = [qpc EXCEPT ![r] = "done"]
    /\ qstatus' = [qstatus EXCEPT ![r] = IF served_by[r] = NoEngine THEN 500 ELSE 200]
    /\ UNCHANGED <<engines, pinned, spc, startup_end, qmodel, served_by, health>>
    /\ UNCHANGED othersOfServer

\* GET /health
HealthCheck ==
    /\ spc[0] = "done"
    /\ LoopFree(-1)
    /\ Len(health) < MaxHealthChecks
    /\ health' = Append(health, HealthStatus(engines))
    /\ UNCHANGED <<engines, pinned, spc, startup_end, qpc, qmodel, served_by, qstatus>>
    /\ UNCHANGED othersOfServer

ServerNext ==
    \/ \E files \in StartupFiles : StartupEvent(files)
    \/ \E p \in Runs, outcome \in ContextOutcomes : StartupContext(p, outcome)
    \/ \E p \in Runs, ok \in BOOLEAN : StartupLoad(p, ok)
    \/ \E r \in Requests, files \in StartupFiles : Middleware(r, files)
    \/ \E r \in Requests : MiddlewareResume(r)
    \/ \E r \in Requests, model \in ModelNames : ChatCompletions(r, model)
    \/ \E r \in Requests : Respond(r)
    \/ HealthCheck

(***************************************************************************)
(* The debug toggle of indexdata.py: a module global, saved and set by     *)
(* enable_debug_for_request and written back by restore_debug_mode.  The   *)
(* callers are requests that each run one enable ... restore pair around   *)
(* their work, as the block of main.py lines 326-334 prescribes.           *)
(***************************************************************************)
DebugRequests == 1..MaxDebugRequests

\* a caller: where it is, the value enable_debug_for_request returned to it
\* (original_debug_mode, None before the call), the value DEBUG_MODE had
\* when it started, and whether its pair overlapped with another one
DebugCaller(pc) ==
    [pc |-> pc, original_mode |-> "None", prior |-> FALSE, overlapped |-> FALSE]

\* enable_debug_for_request(): the new value of the global, and the value
\* returned
enable_debug_for_request(mode) == [mode |-> TRUE, ret |-> mode]

\* the flag left as enable_debug_for_request set it
restore_debug_mode_Skip(original_mode) == TRUE

\* restore_debug_mode(original_mode): the new value of the global
restore_debug_mode(original_mode) == original_mode

\* the callers between their enable and their restore
ActiveDebug == {q \in DebugRequests : dreq[q].pc = "enabled"}

\* a request enables debug mode for itself
EnableDebug(r) ==
    /\ dreq[r].pc = "new"
    /\ LET e == enable_debug_for_request(DEBUG_MODE)
       IN  /\ DEBUG_MODE' = e.mode
           /\ dreq' = [q \in DebugRequests |->
                          IF q = r
                          THEN [pc |-> "enabled", original_mode |-> e.ret,
                                prior |-> DEBUG_MODE,
                                overlapped |-> ActiveDebug # {}]
                          ELSE IF q \in ActiveDebug
                               THEN [dreq[q] EXCEPT !.overlapped = TRUE]
                               ELSE dreq[q]]
    /\ UNCHANGED othersOfDebug

\* the request restores what it saved
RestoreDebug(r) ==
    /\ dreq[r].pc = "enabled"
    /\ DEBUG_MODE' = restore_debug_mode(dreq[r].original_mode)
    /\ dreq' = [dreq EXCEPT ![r].pc = "restored"]
    /\ UNCHANGED othersOfDebug

DebugNext ==
    \/ \E r \in DebugRequests : EnableDebug(r)
    \/ \E r \in DebugRequests : RestoreDebug(r)

(***************************************************************************)
(* Initial states and specifications.  Each specification runs one part of *)
(* the program; the variables of the other parts stay "off".               *)
(***************************************************************************)
\* get_reference on the answer texts
ReferInit ==
    /\ toks = <<>>
    /\ gaps = <<>>
    /\ refs = EmptyDict
    /\ rpc = "writing"
    /\ engine_type = INDEX_BASIC
    /\ data = [k \in OutputList |-> "None"]
    /\ show_references = FALSE
    /\ hpc = "off"
    /\ called = <<>>
    /\ result = NoResult
    /\ gen = "new"
    /\ yielded = <<>>
    /\ pending = NoToken
    /\ raisedAt = -1
    /\ wpc = "loop"
    /\ token_index = 0
    /\ full_response = <<>>
    /\ events = <<>>
    /\ status = 0
    /\ response = <<>>
    /\ strategy_end = "none"
    /\ store = NoTable("absent")
    /\ req = [datatype |-> "documents", id |-> <<"0">>]
    /\ library = NoLib
    /\ returned = Exc
    /\ previous = Exc
    /\ ipc = "off"
    /\ link_data = <<>>
    /\ link_index = <<>>
    /\ link_text = <<>>
    /\ link_refs = EmptyDict
    /\ lkpc = "off"
    /\ data_dir = TRUE
    /\ ref_status = 0
    /\ table_read = FALSE
    /\ epc = "off"
    /\ engines = [slot \in SlotNames |-> NoEngine]
    /\ pinned = [h \in Handlers |-> "unset"]
    /\ spc = [p \in Runs |-> "off"]
    /\ startup_end = [p \in Runs |-> "none"]
    /\ qpc = [r \in Requests |-> "off"]
    /\ qmodel = [r \in Requests |-> INDEX_BASIC]
    /\ served_by = [r \in Requests |-> NoEngine]
    /\ qstatus = [r \in Requests |-> 0]
    /\ health = <<>>
    /\ DEBUG_MODE = FALSE
    /\ dreq = [r \in DebugRequests |-> DebugCaller("off")]

\* one SearchEngineHandler, built over any outcome of resolve_output_files,
\* serving one request
SearchInit ==
    /\ toks = <<>>
    /\ gaps = <<>>
    /\ refs = EmptyDict
    /\ rpc = "off"
    /\ engine_type \in {INDEX_LOCAL, INDEX_GLOBAL, INDEX_DRIFT, INDEX_BASIC}
    /\ data \in resolve_output_files
    /\ show_references \in BOOLEAN
    /\ hpc = "idle"
    /\ called = <<>>
    /\ result = NoResult
    /\ gen = "new"
    /\ yielded = <<>>
    /\ pending = NoToken
    /\ raisedAt = -1
    /\ wpc = "loop"
    /\ token_index = 0
    /\ full_response = <<>>
    /\ events = <<>>
    /\ status = 0
    /\ response = <<>>
    /\ strategy_end = "none"
    /\ store = NoTable("absent")
    /\ req = [datatype |-> "documents", id |-> <<"0">>]
    /\ library = NoLib
    /\ returned = Exc
    /\ previous = Exc
    /\ ipc = "off"
    /\ link_data = <<>>
    /\ link_index = <<>>
    /\ link_text = <<>>
    /\ link_refs = EmptyDict
    /\ lkpc = "off"
    /\ data_dir = TRUE
    /\ ref_status = 0
    /\ table_read = FALSE
    /\ epc = "off"
    /\ engines = [slot \in SlotNames |-> NoEngine]
    /\ pinned = [h \in Handlers |-> "unset"]
    /\ spc = [p \in Runs |-> "off"]
    /\ startup_end = [p \in Runs |-> "none"]
    /\ qpc = [r \in Requests |-> "off"]
    /\ qmodel = [r \in Requests |-> INDEX_BASIC]
    /\ served_by = [r \in Requests |-> NoEngine]
    /\ qstatus = [r \in Requests |-> 0]
    /\ health = <<>>
    /\ DEBUG_MODE = FALSE
    /\ dreq = [r \in DebugRequests |-> DebugCaller("off")]

\* one call of get_index_data on any table, for any datatype and id
StoreInit ==
    /\ toks = <<>>
    /\ gaps = <<>>
    /\ refs = EmptyDict
    /\ rpc = "off"
    /\ engine_type = INDEX_BASIC
    /\ data = [k \in OutputList |-> "None"]
    /\ show_references = FALSE
    /\ hpc = "off"
    /\ called = <<>>
    /\ result = NoResult
    /\ gen = "new"
    /\ yielded = <<>>
    /\ pending = NoToken
    /\ raisedAt = -1
    /\ wpc = "loop"
    /\ token_index = 0
    /\ full_response = <<>>
    /\ events = <<>>
    /\ status = 0
    /\ response = <<>>
    /\ strategy_end = "none"
    /\ store \in Tables
    /\ req \in [datatype : Datatypes, id : RequestIds]
    /\ library = NoLib
    /\ returned = Exc
    /\ previous = Exc
    /\ ipc = "idle"
    /\ link_data = <<>>
    /\ link_index = <<>>
    /\ link_text = <<>>
    /\ link_refs = EmptyDict
    /\ lkpc = "off"
    /\ data_dir = TRUE
    /\ ref_status = 0
    /\ table_read = FALSE
    /\ epc = "off"
    /\ engines = [slot \in SlotNames |-> NoEngine]
    /\ pinned = [h \in Handlers |-> "unset"]
    /\ spc = [p \in Runs |-> "off"]
    /\ startup_end = [p \in Runs |-> "none"]
    /\ qpc = [r \in Requests |-> "off"]
    /\ qmodel = [r \in Requests |-> INDEX_BASIC]
    /\ served_by = [r \in Requests |-> NoEngine]
    /\ qstatus = [r \in Requests |-> 0]
    /\ health = <<>>
    /\ DEBUG_MODE = FALSE
    /\ dreq = [r \in DebugRequests |-> DebugCaller("off")]

\* one request to the lookup endpoint, over every table, and with the data
\* directory present or missing (then no table file is there)
EndpointInit ==
    /\ toks = <<>>
    /\ gaps = <<>>
    /\ refs = EmptyDict
    /\ rpc = "off"
    /\ engine_type = INDEX_BASIC
    /\ data = [k \in OutputList |-> "None"]
    /\ show_references = FALSE
    /\ hpc = "off"
    /\ called = <<>>
    /\ result = NoResult
    /\ gen = "new"
    /\ yielded = <<>>
    /\ pending = NoToken
    /\ raisedAt = -1
    /\ wpc = "loop"
    /\ token_index = 0
    /\ full_response = <<>>
    /\ events = <<>>
    /\ status = 0
    /\ response = <<>>
    /\ strategy_end = "none"
    /\ store \in Tables
    /\ req \in [datatype : PathDatatypes, id : {<<"1">>, <<"0", "1">>, <<"a">>}]
    /\ library = NoLib
    /\ returned = Exc
    /\ previous = Exc
    /\ ipc = "off"
    /\ link_data = <<>>
    /\ link_index = <<>>
    /\ link_text = <<>>
    /\ link_refs = EmptyDict
    /\ lkpc = "off"
    /\ data_dir \in BOOLEAN
    /\ data_dir = FALSE => store = NoTable("absent")
    /\ ref_status = 0
    /\ table_read = FALSE
    /\ epc = "idle"
    /\ engines = [slot \in SlotNames |-> NoEngine]
    /\ pinned = [h \in Handlers |-> "unset"]
    /\ spc = [p \in Runs |-> "off"]
    /\ startup_end = [p \in Runs |-> "none"]
    /\ qpc = [r \in Requests |-> "off"]
    /\ qmodel = [r \in Requests |-> INDEX_BASIC]
    /\ served_by = [r \in Requests |-> NoEngine]
    /\ qstatus = [r \in Requests |-> 0]
    /\ health = <<>>
    /\ DEBUG_MODE = FALSE
    /\ dreq = [r \in DebugRequests |-> DebugCaller("off")]

\* one call of generate_ref_links, over every mapping of the bounds
LinkInit ==
    /\ toks = <<>>
    /\ gaps = <<>>
    /\ refs = EmptyDict
    /\ rpc = "off"
    /\ engine_type = INDEX_BASIC
    /\ data = [k \in OutputList |-> "None"]
    /\ show_references = FALSE
    /\ hpc = "off"
    /\ called = <<>>
    /\ result = NoResult
    /\ gen = "new"
    /\ yielded = <<>>
    /\ pending = NoToken
    /\ raisedAt = -1
    /\ wpc = "loop"
    /\ token_index = 0
    /\ full_response = <<>>
    /\ events = <<>>
    /\ status = 0
    /\ response = <<>>
    /\ strategy_end = "none"
    /\ store = NoTable("absent")
    /\ req = [datatype |-> "documents", id |-> <<"0">>]
    /\ library = NoLib
    /\ returned = Exc
    /\ previous = Exc
    /\ ipc = "off"
    /\ link_data \in LinkInputs
    /\ link_index \in LinkIndexIds
    /\ link_text = <<>>
    /\ link_refs = EmptyDict
    /\ lkpc = "idle"
    /\ data_dir = TRUE
    /\ ref_status = 0
    /\ table_read = FALSE
    /\ epc = "off"
    /\ engines = [slot \in SlotNames |-> NoEngine]
    /\ pinned = [h \in Handlers |-> "unset"]
    /\ spc = [p \in Runs |-> "off"]
    /\ startup_end = [p \in Runs |-> "none"]
    /\ qpc = [r \in Requests |-> "off"]
    /\ qmodel = [r \in Requests |-> INDEX_BASIC]
    /\ served_by = [r \in Requests |-> NoEngine]
    /\ qstatus = [r \in Requests |-> 0]
    /\ health = <<>>
    /\ DEBUG_MODE = FALSE
    /\ dreq = [r \in DebugRequests |-> DebugCaller("off")]

\* the process starts: the globals are None and startup_event has not run
ServerInit ==
    /\ toks = <<>>
    /\ gaps = <<>>
    /\ refs = EmptyDict
    /\ rpc = "off"
    /\ engine_type = INDEX_BASIC
    /\ data = [k \in OutputList |-> "None"]
    /\ show_references = FALSE
    /\ hpc = "off"
    /\ called = <<>>
    /\ result = NoResult
    /\ gen = "new"
    /\ yielded = <<>>
    /\ pending = NoToken
    /\ raisedAt = -1
    /\ wpc = "loop"
    /\ token_index = 0
    /\ full_response = <<>>
    /\ events = <<>>
    /\ status = 0
    /\ response = <<>>
    /\ strategy_end = "none"
    /\ store = NoTable("absent")
    /\ req = [datatype |-> "documents", id |-> <<"0">>]
    /\ library = NoLib
    /\ returned = Exc
    /\ previous = Exc
    /\ ipc = "off"
    /\ link_data = <<>>
    /\ link_index = <<>>
    /\ link_text = <<>>
    /\ link_refs = EmptyDict
    /\ lkpc = "off"
    /\ data_dir = TRUE
    /\ ref_status = 0
    /\ table_read = FALSE
    /\ epc = "off"
    /\ engines = [slot \in SlotNames |-> NoEngine]
    /\ pinned = [h \in Handlers |-> "unset"]
    /\ spc = [p \in Runs |-> "idle"]
    /\ startup_end = [p \in Runs |-> "none"]
    /\ qpc = [r \in Requests |-> "new"]
    /\ qmodel = [r \in Requests |-> INDEX_BASIC]
    /\ served_by = [r \in Requests |-> NoEngine]
    /\ qstatus = [r \in Requests |-> 0]
    /\ health = <<>>
    /\ DEBUG_MODE = FALSE
    /\ dreq = [r \in DebugRequests |-> DebugCaller("off")]

\* the module is imported, and no request has touched the toggle
DebugInit ==
    /\ toks = <<>>
    /\ gaps = <<>>
    /\ refs = EmptyDict
    /\ rpc = "off"
    /\ engine_type = INDEX_BASIC
    /\ data = [k \in OutputList |-> "None"]
    /\ show_references = FALSE
    /\ hpc = "off"
    /\ called = <<>>
    /\ result = NoResult
    /\ gen = "new"
    /\ yielded = <<>>
    /\ pending = NoToken
    /\ raisedAt = -1
    /\ wpc = "loop"
    /\ token_index = 0
    /\ full_response = <<>>
    /\ events = <<>>
    /\ status = 0
    /\ response = <<>>
    /\ strategy_end = "none"
    /\ store = NoTable("absent")
    /\ req = [datatype |-> "documents", id |-> <<"0">>]
    /\ library = NoLib
    /\ returned = Exc
    /\ previous = Exc
    /\ ipc = "off"
    /\ link_data = <<>>
    /\ link_index = <<>>
    /\ link_text = <<>>
    /\ link_refs = EmptyDict
    /\ lkpc = "off"
    /\ data_dir = TRUE
    /\ ref_status = 0
    /\ table_read = FALSE
    /\ epc = "off"
    /\ engines = [slot \in SlotNames |-> NoEngine]
    /\ pinned = [h \in Handlers |-> "unset"]
    /\ spc = [p \in Runs |-> "off"]
    /\ startup_end = [p \in Runs |-> "none"]
    /\ qpc = [r \in Requests |-> "off"]
    /\ qmodel = [r \in Requests |-> INDEX_BASIC]
    /\ served_by = [r \in Requests |-> NoEngine]
    /\ qstatus = [r \in Requests |-> 0]
    /\ health = <<>>
    /\ DEBUG_MODE = FALSE
    /\ dreq = [r \in DebugRequests |-> DebugCaller("new")]

SpecRefer == ReferInit /\ [][ReferNext]_vars

SpecSearch == SearchInit /\ [][SearchNext]_vars

SpecStore == StoreInit /\ [][StoreNext]_vars

SpecLinks == LinkInit /\ [][LinkNext]_vars

SpecEndpoint == EndpointInit /\ [][EndpointNext]_vars

SpecServer == ServerInit /\ [][ServerNext]_vars

SpecDebug == DebugInit /\ [][DebugNext]_vars

\* the steps of a stream up to the end of its loop
StreamStep ==
    \/ GenStart
    \/ \E text \in StrategyTexts : StrategyYield(text)
    \/ StrategyRaise
    \/ GenReturn
    \/ WrapperTake
    \/ WrapperDone

\* the event loop runs every task that can run: a stream that can go on does.
\* A step from LoopOver to wpc = "final" is a WrapperFinal step, and
\* WrapperFinal is enabled exactly when LoopOver holds.
FairSpecSearch ==
    /\ SpecSearch
    /\ WF_vars(StreamStep)
    /\ WF_wpc(LoopOver /\ wpc' = "final")

(***************************************************************************)
(* What the tokens of a text cite, read off the tokens (not the            *)
(* characters).  Walking the tokens keeps, for the marker being written:   *)
(* br (it opened with a bracket), ok (it conforms so far), cur (the pairs  *)
(* <<key, id>> of its groups), suf (it has an elision suffix); and for the *)
(* whole text: cited (pairs of the conforming markers), sufcited (pairs of *)
(* the conforming markers with a suffix), inenv (pairs of the groups that  *)
(* lie in a complete bracketed envelope), nconf (conforming markers).      *)
(* gb is the number of blanks before the token.  With lenient = TRUE a     *)
(* non-numeric token of an id list is dropped and blanks are allowed       *)
(* around every token (the grammar as the specification words it); with    *)
(* lenient = FALSE a non-numeric token makes its marker non-conforming,    *)
(* and so does a blank after the elision suffix or between ")" and a       *)
(* separator or the closing bracket.                                       *)
(***************************************************************************)
Walk0 == [ph |-> "out", br |-> FALSE, ok |-> FALSE, cur |-> {}, suf |-> FALSE,
          k |-> <<>>, n |-> FALSE, cited |-> {}, sufcited |-> {}, inenv |-> {},
          nconf |-> 0, nsuf |-> 0, nword |-> 0]

WalkStep(st, tok, gb, lenient) ==
    CASE tok.ty = "prose" -> [st EXCEPT !.ph = "out"]
      [] tok.ty \in {"open", "nobr"} ->
            [st EXCEPT !.ph = "open", !.br = (tok.ty = "open"), !.ok = TRUE,
                       !.cur = {}, !.suf = FALSE]
      [] tok.ty = "kind" ->
            IF st.ph = "out"
            THEN [st EXCEPT !.ph = "kind", !.br = FALSE, !.ok = FALSE,
                            !.cur = {}, !.suf = FALSE, !.k = tok.key]
            ELSE [st EXCEPT !.ph = "kind", !.k = tok.key]
      [] tok.ty = "lp" -> [st EXCEPT !.ph = "list", !.n = FALSE]
      [] tok.ty = "id" ->
            [st EXCEPT !.cur = @ \cup {<<st.k, tok.ch>>}, !.n = TRUE]
      [] tok.ty = "word" ->
            [st EXCEPT !.ok = @ /\ lenient, !.n = TRUE, !.nword = @ + 1]
      [] tok.ty = "comma" -> [st EXCEPT !.n = TRUE]
      [] tok.ty = "suf" ->
            [st EXCEPT !.ph = "suf", !.suf = TRUE,
                       !.ok = @ /\ (lenient \/ st.n \/ gb > 0)]
      [] tok.ty = "rp" ->
            [st EXCEPT !.ph = "rp",
                       !.ok = @ /\ (lenient \/ IF st.ph = "suf" THEN gb = 0
                                                ELSE st.n \/ gb > 0)]
      [] tok.ty = "sep" ->
            [st EXCEPT !.ph = "sep", !.ok = @ /\ (lenient \/ gb = 0)]
      [] tok.ty = "close" ->
            LET conf == /\ st.br /\ st.ok /\ st.ph \in {"rp", "sep"}
                        /\ (lenient \/ st.ph = "sep" \/ gb = 0)
            IN  [st EXCEPT !.ph = "out",
                     !.cited = IF conf THEN @ \cup st.cur ELSE @,
                     !.sufcited = IF conf /\ st.suf THEN @ \cup st.cur ELSE @,
                     !.nconf = IF conf THEN @ + 1 ELSE @,
                     !.nsuf = IF conf /\ st.suf THEN @ + 1 ELSE @,
                     !.inenv = IF st.br THEN @ \cup st.cur ELSE @]

RECURSIVE Walk(_, _, _, _, _)
Walk(st, ts, gs, gb, lenient) ==
    IF ts = <<>> THEN st
    ELSE Walk(WalkStep(st, Head(ts), gb, lenient), Tail(ts), Tail(gs),
              Head(gs), lenient)

Cited(ts, gs) == Walk(Walk0, ts, gs, 0, FALSE)
CitedLenient(ts, gs) == Walk(Walk0, ts, gs, 0, TRUE)


(***************************************************************************)
(* C1  For every record kind: when the table file is absent                *)
(* get_index_data returns the error placeholder (id "error"), and when the *)
(* table loads but no row matches the requested id (numeric or not, table  *)
(* empty or not) it returns the not-found placeholder (id "not_found"),    *)
(* never the error placeholder.                                            *)
(***************************************************************************)
\* no cell of the table is the id, as a string or as an integer, and the id
\* is not the position of a row
NoRowMatches(t, id) ==
    /\ \A i \in DOMAIN t.rows : \A c \in t.cols :
           /\ t.rows[i][c] # id
           /\ ~(IsDigitStr(t.rows[i][c]) /\ IsDigitStr(id)
                   /\ IntOf(t.rows[i][c]) = IntOf(id))
    /\ IsDigitStr(id) => IntOf(id) >= Len(t.rows)

C1_ErrorOrNotFound ==
    ipc = "done" =>
        /\ store.file = "absent" =>
               returned.st = "ret" /\ returned.rec.id = ERROR_ID
        /\ store.file = "ok" /\ NoRowMatches(store, req.id) =>
               returned.st = "ret" /\ returned.rec.id = NOT_FOUND_ID

(***************************************************************************)
(* C2  For each of the five datatypes and any id, get_index_data returns a *)
(* record of the requested kind and never raises: whether the table file   *)
(* is absent or unreadable, the table has no id column, the table is       *)
(* empty, no row matches, or the adapter raises.                           *)
(***************************************************************************)
C2_AlwaysARecord ==
    ipc = "done" =>
        returned.st = "ret" /\ returned.rec.kind = KindOf(req.datatype)

\* the adapter raised on an empty report table with no id column, and the
\* call returned the placeholder of a report
C2_Witness ==
    /\ ipc = "done"
    /\ req.datatype = "reports"
    /\ store.file = "ok" /\ "id" \notin store.cols /\ store.rows = <<>>
    /\ library.adapter = "raise"
    /\ returned = Ret(ErrorPlaceholder("CommunityReport"))

(***************************************************************************)
(* C3  get_reference returns exactly the mapping from each lowercased kind *)
(* name to the set of all numeric ids listed for that kind in any group of *)
(* any conforming marker of the text: the union over all markers and       *)
(* groups, duplicates collapsed.                                           *)
(***************************************************************************)
C3_ExactMapping == rpc = "scanned" => Says(refs, Cited(toks, gaps).cited)

\* a text with two conforming markers citing two kinds has been scanned
C3_Witness ==
    /\ rpc = "scanned"
    /\ Cited(toks, gaps).nconf = 2
    /\ Cardinality(DOMAIN refs) = 2

(***************************************************************************)
(* C4  A non-numeric token of an id list is silently dropped, while the    *)
(* numeric tokens of the same list and the other groups of the same marker *)
(* are still extracted.                                                    *)
(***************************************************************************)
C4_NonNumericDropped ==
    (rpc = "scanned" /\ SumSeq(gaps) = 0)
        => Says(refs, CitedLenient(toks, gaps).cited)

(***************************************************************************)
(* C5  Inserting blanks around the tokens of a conforming marker does not  *)
(* change the mapping extracted from the text.                             *)
(***************************************************************************)
C5_WhitespaceInsensitive ==
    (rpc = "scanned" /\ CitedLenient(toks, gaps).nword = 0)
        => refs = get_reference(Render(toks, NoGaps(toks)))

(***************************************************************************)
(* C6  Nothing is extracted from text outside a complete bracketed         *)
(* envelope: the result is empty when no marker is complete, every pair    *)
(* comes from a parenthesized group inside a complete envelope, and every  *)
(* key maps to a non-empty set of digit-only strings.                      *)
(***************************************************************************)
C6_OnlyFromEnvelope ==
    rpc = "scanned" =>
        /\ Pairs(refs) \subseteq Cited(toks, gaps).inenv
        /\ \A k \in DOMAIN refs :
              /\ refs[k] # {}
              /\ \A v \in refs[k] :
                    v # <<>> /\ \A i \in DOMAIN v : v[i] \in DigitChars

\* a text with an id in a group outside any bracketed envelope, and a
\* complete marker, has been scanned: the id of the loose group is not in
\* the result
C6_Witness ==
    /\ rpc = "scanned"
    /\ \E i \in DOMAIN toks : toks[i].ty = "nobr"
    /\ Pairs(refs) # {}
    /\ \E i \in DOMAIN toks :
          toks[i].ty = "id" /\ \A p \in Pairs(refs) : p[2] # toks[i].ch

(***************************************************************************)
(* C7  An elision suffix at the end of an id list is discarded: every      *)
(* numeric id before it is extracted, and no id and no key comes from the  *)
(* suffix.                                                                 *)
(***************************************************************************)
C7_SuffixDiscarded ==
    rpc = "scanned" =>
        /\ Cited(toks, gaps).sufcited \subseteq Pairs(refs)
        /\ \A k \in DOMAIN refs :
              /\ \A i \in DOMAIN k : k[i] \notin {"+", "m"}
              /\ \A v \in refs[k] : \A i \in DOMAIN v : v[i] \notin {"+", "m"}

\* a conforming marker whose id list ends "1+m" (the suffix right after an
\* id) has been scanned
C7_Witness ==
    /\ rpc = "scanned"
    /\ Cited(toks, gaps).nsuf = 1
    /\ \E i \in 2..Len(toks) :
          toks[i].ty = "suf" /\ toks[i - 1].ty = "id" /\ gaps[i - 1] = 0



(***************************************************************************)
(* C8  A handler pinned to global, local or drift whose required tables    *)
(* are not all loaded runs the basic strategy, and does not call the       *)
(* pinned strategy, whenever text-chunks are loaded; it produces the       *)
(* not-configured envelope / token only when text-chunks are missing too.  *)
(***************************************************************************)
\* the tables each strategy requires
Required(et) ==
    CASE et = INDEX_GLOBAL ->
            {ENTITY_TABLE, COMMUNITY_TABLE, COMMUNITY_REPORT_TABLE}
      [] et = INDEX_LOCAL ->
            {ENTITY_TABLE, TEXT_UNIT_TABLE, RELATIONSHIP_TABLE,
             COMMUNITY_REPORT_TABLE}
      [] et = INDEX_DRIFT -> OutputList
      [] OTHER -> {TEXT_UNIT_TABLE}

Dispatched == hpc = "sync_done" \/ (hpc = "stream" /\ gen # "new")

C8_FallbackToBasic ==
    (/\ Dispatched
     /\ engine_type \in {INDEX_GLOBAL, INDEX_LOCAL, INDEX_DRIFT}
     /\ \E k \in Required(engine_type) : data[k] = "None")
    => IF data[TEXT_UNIT_TABLE] # "None"
       THEN /\ called = <<INDEX_BASIC>>
            /\ result.error # "Missing required data"
            /\ \A i \in DOMAIN yielded : yielded[i] # NotConfiguredToken
       ELSE /\ called = <<>>
            /\ hpc = "sync_done" => result.error = "Missing required data"
            /\ hpc = "stream" => yielded = <<NotConfiguredToken>>

(***************************************************************************)
(* C9  The events of a streaming chat completion are finitely many and end *)
(* with exactly one "data: [DONE]" event, the last of the stream, also     *)
(* when the strategy raises before or after producing tokens.              *)
(***************************************************************************)
DoneOnlyLast ==
    /\ \A i \in DOMAIN events :
          events[i] = DoneEvent => (i = Len(events) /\ wpc = "done")
    /\ wpc = "done" => (events # <<>> /\ events[Len(events)] = DoneEvent)

C9_StreamEndsWithDone == [] DoneOnlyLast /\ (hpc = "stream" ~> wpc = "done")

\* a stream whose strategy raised after two tokens has ended with [DONE]
C9_Witness ==
    /\ wpc = "done"
    /\ raisedAt = 2
    /\ events[Len(events)] = DoneEvent

(***************************************************************************)
(* C10  When the strategy raises during stream_search, before or after     *)
(* some tokens, the sequence yields exactly one further, explanatory token *)
(* and ends; it does not raise to its consumer and yields nothing after    *)
(* the explanatory token.                                                  *)
(***************************************************************************)
C10_OneExplanatoryToken ==
    /\ gen # "raised"
    /\ raisedAt >= 0 =>
          /\ gen \in {"last", "done"}
          /\ Len(yielded) = raisedAt + 1
          /\ yielded[raisedAt + 1] = ErrorToken
          /\ \A i \in 1..raisedAt : yielded[i].src = "strategy"

\* the strategy raised before any token, and the generator has returned
C10_Witness == gen = "done" /\ raisedAt = 0 /\ yielded = <<ErrorToken>>

(***************************************************************************)
(* C11  SearchEngineHandler.search never raises: for any state of the      *)
(* loaded tables it returns an envelope with answer, context and sources,  *)
(* or an error envelope with error, a user-facing answer and the query,    *)
(* also when the call to the strategy raises.                              *)
(***************************************************************************)
C11_SearchNeverRaises ==
    hpc \notin {"off", "idle", "stream"} =>
        \/ /\ result.kind = "answer"
           /\ {"answer", "context", "sources"} \subseteq result.keys
        \/ /\ result.kind = "error"
           /\ result.keys = {"error", "answer", "query"}
           /\ result.answer # <<>>

\* the global strategy was called with no table loaded and did not return
\* normally: search returned the error envelope of its except clause
C11_Witness ==
    /\ hpc = "sync_done"
    /\ engine_type = INDEX_GLOBAL
    /\ \A k \in OutputList : data[k] = "None"
    /\ called = <<INDEX_GLOBAL>>
    /\ result = SearchExcept

(***************************************************************************)
(* C12  When the selected strategy raises while a non-streaming chat       *)
(* completion is served, the failure is re-raised at the chat-completion   *)
(* boundary and the response is an HTTP 500, not a 200 carrying answer     *)
(* text.                                                                   *)
(***************************************************************************)
C12_StrategyFailureIs500 ==
    (hpc = "sync_sent" /\ strategy_end = "raise") => status = 500

(***************************************************************************)
(* C14  Every reference link the chat endpoint renders for a citation      *)
(* extracted from an answer has, as its kind path segment, one of the      *)
(* kinds the record lookup endpoint accepts.                               *)
(***************************************************************************)
\* the kinds of main.py line 321, as they appear in a path
SupportedKinds ==
    {<<"e", "n", "t", "i", "t", "i", "e", "s">>,
     <<"s", "o", "u", "r", "c", "e", "s">>,
     <<"r", "e", "p", "o", "r", "t", "s">>,
     <<"r", "e", "l", "a", "t", "i", "o", "n", "s", "h", "i", "p", "s">>,
     <<"d", "o", "c", "u", "m", "e", "n", "t", "s">>}

\* the text whose references block the request has rendered, if any
RenderedFrom ==
    IF hpc = "sync_sent" /\ status = 200 /\ response # result.answer
    THEN result.answer
    ELSE IF hpc = "stream" /\ wpc \in {"final", "done"}
            /\ \E i \in DOMAIN events :
                   events[i].ty = "final" /\ events[i].content # <<>>
    THEN full_response
    ELSE <<>>

C14_LinksDereferenceable ==
    \A k \in Range(KeysInOrder(RenderedFrom)) : k \in SupportedKinds

(***************************************************************************)
(* C16  In the non-streaming and in the streaming chat response the        *)
(* references block is appended if and only if at least one citation was   *)
(* extracted from the answer text and settings.show_references is true;    *)
(* otherwise the answer is returned unchanged (streaming: the final chunk  *)
(* has empty content).                                                     *)
(***************************************************************************)
\* b is a references block: a line break and then the first link line
IsBlock(b) == Len(b) > 3 /\ SubSeq(b, 1, 3) = <<"\n", "[", "^">>

C16_BlockIffCitedAndShown ==
    /\ (hpc = "sync_sent" /\ status = 200) =>
          IF get_reference(result.answer) # EmptyDict /\ show_references
          THEN /\ Len(response) > Len(result.answer)
               /\ SubSeq(response, 1, Len(result.answer)) = result.answer
               /\ IsBlock(SubSeq(response, Len(result.answer) + 1,
                                  Len(response)))
          ELSE response = result.answer
    /\ (hpc = "stream" /\ wpc \in {"final", "done"}) =>
          \A i \in DOMAIN events : events[i].ty = "final" =>
              IF get_reference(full_response) # EmptyDict /\ show_references
              THEN IsBlock(events[i].content)
              ELSE events[i].content = <<>>

\* a stream whose answer cites a source has ended, the flag being set: its
\* final chunk carries the references block
C16_Witness ==
    /\ hpc = "stream" /\ wpc = "done" /\ show_references
    /\ get_reference(full_response) # EmptyDict
    /\ \E i \in DOMAIN events :
          events[i].ty = "final" /\ IsBlock(events[i].content)

(***************************************************************************)
(* C13  For every record kind, if a row's stored id and the requested id   *)
(* both parse as integers and are numerically equal, resolution returns    *)
(* the record built from such a row and not a placeholder, even when the   *)
(* two string forms differ.                                                *)
(***************************************************************************)
\* the rows whose id is numerically the requested id
NumericIdRows(t, id) ==
    IF t.file # "ok" \/ "id" \notin t.cols \/ IntRaises(id) THEN {}
    ELSE {i \in DOMAIN t.rows :
             /\ ~IntRaises(t.rows[i]["id"])
             /\ IntOf(t.rows[i]["id"]) = IntOf(id)}

C13_NumericIdResolves ==
    (ipc = "done" /\ NumericIdRows(store, req.id) # {}) =>
        /\ returned.st = "ret"
        /\ returned.rec.id \notin {ERROR_ID, NOT_FOUND_ID}
        /\ \E i \in NumericIdRows(store, req.id) :
              returned.rec.id = store.rows[i]["id"]

(***************************************************************************)
(* C15  generate_ref_links emits exactly one line per (kind, id) pair of   *)
(* its input: the number of lines is the sum of the id-set sizes, the      *)
(* output is empty for an empty mapping, each line has the form            *)
(* [^Data:{Kind}({id})]: [{Kind}: {id}]({base_url}/v1/references/{model}/  *)
(* {kind}/{id}) with {Kind} the capitalized kind, and the kinds come in    *)
(* the mapping's iteration order, the ids of a kind in its set's order.    *)
(***************************************************************************)
\* s.split("\n") for a non-empty s, no line for an empty one
RECURSIVE SplitLines(_)
SplitLines(s) ==
    IF \A i \in DOMAIN s : s[i] # "\n" THEN <<s>>
    ELSE LET c == CHOOSE i \in DOMAIN s :
                      s[i] = "\n" /\ \A j \in 1..(i - 1) : s[j] # "\n"
         IN  <<SubSeq(s, 1, c - 1)>> \o SplitLines(SubSeq(s, c + 1, Len(s)))

LinesOf(s) == IF s = <<>> THEN <<>> ELSE SplitLines(s)

\* the (kind, id) pairs of data.items(), in iteration order
RECURSIVE PairsInOrder(_)
PairsInOrder(items) ==
    IF items = <<>> THEN <<>>
    ELSE [i \in DOMAIN Head(items)[2] |-> <<Head(items)[1], Head(items)[2][i]>>]
             \o PairsInOrder(Tail(items))

\* the line the claim describes for one pair
LineForm(k, v, model) ==
    <<"[", "^", "D", "a", "t", "a", ":">> \o Capitalize(k) \o <<"(">> \o v
        \o <<")", "]", ":", " ", "[">> \o Capitalize(k) \o <<":", " ">> \o v
        \o <<"]", "(">> \o ReferenceUrlBase
        \o <<"/", "v", "1", "/", "r", "e", "f", "e", "r", "e", "n", "c", "e", "s", "/">>
        \o model \o <<"/">> \o k \o <<"/">> \o v \o <<")">>

C15_OneLinePerPair ==
    lkpc = "done" =>
        LET lines == LinesOf(link_text)
            pairs == PairsInOrder(link_data)
        IN  /\ Len(lines) = Len(pairs)
            /\ link_data = <<>> => link_text = <<>>
            /\ \A i \in DOMAIN pairs :
                  lines[i] = LineForm(pairs[i][1], pairs[i][2], link_index)

\* {sources: {15}} with model local: one line, ending in
\* /v1/references/local/sources/15)
C15_Witness ==
    /\ lkpc = "done"
    /\ link_data = <<<<(<<"s", "o", "u", "r", "c", "e", "s">>), <<(<<"1", "5">>)>>>>>>
    /\ link_index = <<"l", "o", "c", "a", "l">>
    /\ Len(LinesOf(link_text)) = 1
    /\ LET tail == <<"/", "v", "1", "/", "r", "e", "f", "e", "r", "e", "n", "c", "e", "s", "/",
                     "l", "o", "c", "a", "l", "/", "s", "o", "u", "r", "c", "e", "s", "/",
                     "1", "5", ")">>
       IN  /\ Len(link_text) > Len(tail)
           /\ SubSeq(link_text, Len(link_text) - Len(tail) + 1, Len(link_text)) = tail

(***************************************************************************)
(* C17  GET /v1/references/{strategy}/{kind}/{id} answers 404 when the     *)
(* data directory is missing or the kind is not one of the five supported  *)
(* kinds, and then reads no table; for a supported kind with the data      *)
(* directory present it answers 200 whether the record is found, is not    *)
(* found, or the table cannot be read.                                     *)
(***************************************************************************)
C17_NotFoundOnlyBeforeLookup ==
    epc = "done" =>
        IF data_dir /\ req.datatype \in Datatypes
        THEN ref_status = 200 /\ table_read
        ELSE ref_status = 404 /\ ~table_read

\* the documents table cannot be read: the answer is 200, with the error
\* placeholder
C17_Witness ==
    /\ epc = "done" /\ data_dir
    /\ req.datatype = "documents" /\ store.file = "unreadable"
    /\ returned = Ret(ErrorPlaceholder("dict"))
    /\ ref_status = 200

(***************************************************************************)
(* C18  A chat completion request is dispatched to a strategy instance     *)
(* only if all four engines are initialized at the moment of dispatch;     *)
(* otherwise it is answered 503 and no strategy is invoked.  Under every   *)
(* interleaving of requests with the startup runs the middleware starts,   *)
(* no request calls a method on an uninitialized (None) engine.            *)
(***************************************************************************)
Initialized(e) == \A slot \in SlotNames : e[slot] # NoEngine

\* the step in which request r leaves the guard of chat_completions
Dispatching(r) == qpc[r] = "passed" /\ qpc'[r] # "passed"

C18_DispatchOnlyWhenReady ==
    /\ [](\A r \in Requests :
            /\ qpc[r] = "dispatched" => served_by[r] # NoEngine
            /\ qstatus[r] = 503 => served_by[r] = NoEngine
            /\ qstatus[r] # 500)
    /\ [][\A r \in Requests :
            Dispatching(r) =>
                IF Initialized(engines)
                THEN /\ qpc'[r] = "dispatched"
                     /\ \E slot \in SlotNames : served_by'[r] = engines[slot]
                ELSE /\ qstatus'[r] = 503
                     /\ served_by'[r] = NoEngine]_vars

\* the startup runs of two requests overlapped: the run of request 1 set no
\* engine, and request 1 was dispatched to a handler that the run of
\* request 2 built in the meantime
C18_Witness ==
    /\ qpc[1] = "dispatched"
    /\ startup_end[1] \in {"returned_early", "raised"}
    /\ served_by[1] # NoEngine /\ served_by[1].run = 2

(***************************************************************************)
(* C19  A request whose model is local, global or drift is served by the   *)
(* handler pinned to that strategy, a request with any other model name    *)
(* by the handler pinned to basic; the strategy a handler is pinned to     *)
(* never changes once it is set.                                           *)
(***************************************************************************)
ExpectedStrategy(model) ==
    IF model \in {INDEX_LOCAL, INDEX_GLOBAL, INDEX_DRIFT} THEN model
    ELSE INDEX_BASIC

C19_ModelSelectsPinnedEngine ==
    /\ [](\A r \in Requests :
            served_by[r] # NoEngine =>
                pinned[served_by[r]] = ExpectedStrategy(qmodel[r]))
    /\ [][\A h \in Handlers :
            (pinned[h] # "unset" /\ pinned'[h] # "unset") => pinned'[h] = pinned[h]]_vars

\* a request naming no strategy is served by the basic handler that the
\* startup run of a request built
C19_Witness ==
    \E r \in Requests :
        /\ qpc[r] = "dispatched" /\ qmodel[r] = "gpt"
        /\ served_by[r].run # 0
        /\ pinned[served_by[r]] = INDEX_BASIC

(***************************************************************************)
(* C20  GET /health answers 200 if and only if all four engines are        *)
(* initialized, and 503 otherwise, also after a startup that returned      *)
(* early because the root directory, the data directory, settings.yaml or  *)
(* a required table was missing.                                           *)
(***************************************************************************)
C20_HealthIffAllEngines ==
    [][Len(health') > Len(health) =>
          LET answered == health'[Len(health')]
          IN  /\ answered \in {200, 503}
              /\ answered = 200 <=> Initialized(engines)]_vars

\* startup_event returned early, the globals are None, and the service
\* reported unhealthy
C20_Witness ==
    /\ startup_end[0] = "returned_early"
    /\ \A slot \in SlotNames : engines[slot] = NoEngine
    /\ health = <<503>>

NumericMatch(t, c, id) ==
    IF IntRaises(id) THEN {}
    ELSE {i \in DOMAIN t.rows :
             ~IntRaises(t.rows[i][c]) /\ IntOf(t.rows[i][c]) = IntOf(id)}

\* the rows of the earliest strategy that matches anything
EarliestStrategyRows(t, id) ==
    FirstNonEmpty(<<StrMatch(t, "id", id), NumericMatch(t, "id", id)>>
        \o (IF "short_id" \in t.cols
            THEN <<StrMatch(t, "short_id", id), NumericMatch(t, "short_id", id)>>
            ELSE <<>>)
        \o (IF "human_readable_id" \in t.cols
            THEN <<StrMatch(t, "human_readable_id", id)>> ELSE <<>>))

C22_EarliestStrategyFirstRow ==
    (/\ ipc = "done" /\ store.file = "ok" /\ "id" \in store.cols
     /\ EarliestStrategyRows(store, req.id) # {}) =>
        /\ returned.st = "ret"
        /\ returned.rec.kind = KindOf(req.datatype)
        /\ returned.rec.id = store.rows[Min(EarliestStrategyRows(store, req.id))]["id"]

(***************************************************************************)
(* C23  For community reports, when no id-column strategy matches and the  *)
(* requested id parses as an integer n with 0 <= n < number of rows,       *)
(* get_report returns the record built from the row at zero-based offset n *)
(* and not a placeholder.                                                  *)
(***************************************************************************)
\* the request is a row offset of the table and matches no id column
OffsetOnly(t, id) ==
    /\ t.file = "ok" /\ "id" \in t.cols
    /\ EarliestStrategyRows(t, id) = {}
    /\ ~IntRaises(id) /\ IntOf(id) < Len(t.rows)

C23_ReportByRowOffset ==
    (ipc = "done" /\ req.datatype = "reports" /\ OffsetOnly(store, req.id)) =>
        /\ returned.st = "ret"
        /\ returned.rec.id = store.rows[IntOf(req.id) + 1]["id"]

(***************************************************************************)
(* C24  For kinds other than community report, resolution never matches a  *)
(* row by its position: when the requested id equals no value of any       *)
(* id-like column of the table, compared as string or as integer, the      *)
(* result is a placeholder.                                                *)
(***************************************************************************)
\* no id-like column of the table holds the requested id
NoIdLikeMatch(t, id) ==
    \A c \in t.cols : StrMatch(t, c, id) = {} /\ NumericMatch(t, c, id) = {}

C24_NoPositionalMatch ==
    (/\ ipc = "done" /\ req.datatype # "reports"
     /\ store.file = "ok" /\ NoIdLikeMatch(store, req.id)) =>
        /\ returned.st = "ret"
        /\ returned.rec.id \in {ERROR_ID, NOT_FOUND_ID}

\* a row matches the requested id in its alias column and in no other column
AliasOnlyRows(t, id) ==
    IF "alias_id" \in t.cols /\ NoIdLikeMatch([t EXCEPT !.cols = @ \ {"alias_id"}], id)
    THEN StrMatch(t, "alias_id", id) ELSE {}

\* C25: when the direct lookup finds no row and the adapter list scan ends
\* without a match, whether it completed or raised, the raw table is scanned
\* over id, short_id and the alias column before any placeholder is returned:
\* a row matching only by its alias column is resolved to a record built from
\* that row
C25_AliasRowResolved ==
    (/\ ipc = "done"
     /\ req.datatype \in {"entities", "sources", "reports", "relationships"}
     /\ store.file = "ok"
     /\ AliasOnlyRows(store, req.id) # {})
        => /\ returned.st = "ret"
           /\ returned.rec = Rec(KindOf(req.datatype),
                                 IF "id" \in store.cols
                                 THEN store.rows[Min(AliasOnlyRows(store, req.id))]["id"]
                                 ELSE req.id,
                                 req.id)

(***************************************************************************)
(* C26  Whenever all four engine handles are initialized, the four         *)
(* handlers hold the config and the tables of one single load_context      *)
(* call, also when the middleware re-runs startup for concurrent requests  *)
(* and the runs interleave at their await points.                          *)
(***************************************************************************)
\* the load_context call whose config and data the handler was built with
ContextOf(h) == h.run

C29_EnginesStayInitialized ==
    /\ [](\A i, j \in DOMAIN health :
            (i < j /\ health[i] = 200) => health[j] = 200)
    /\ [][Initialized(engines) =>
             /\ Initialized(engines')
             /\ \A r \in Requests : qstatus'[r] = 503 => qstatus[r] = 503]_vars

\* the service reported healthy while the startup run of request 2 was in
\* flight, that run then replaced the four handlers, and the service
\* reported healthy again
C29_Witness ==
    /\ health = <<200, 200>>
    /\ startup_end[1] = "loaded" /\ startup_end[2] = "loaded"
    /\ \A slot \in SlotNames : engines[slot] = Handler(2, slot)
    /\ qstatus[1] = 200

(***************************************************************************)
(* C28  In a streaming chat completion every token the dispatcher's stream *)
(* yields, from the first one on and including the explanatory token of an *)
(* error or of a missing configuration, is forwarded to the client as      *)
(* exactly one content chunk, in the order yielded; the text scanned for   *)
(* citations at the end is the concatenation of all yielded tokens.        *)
(***************************************************************************)
IsContentChunk(e) == e.ty = "chunk"

\* the content chunks sent so far
ContentChunks == SelectSeq(events, IsContentChunk)

RECURSIVE TextOf(_)
TextOf(tokens) ==
    IF tokens = <<>> THEN <<>> ELSE Head(tokens).text \o TextOf(Tail(tokens))

C28_EveryTokenForwarded ==
    (hpc = "stream" /\ wpc # "loop") =>
        /\ ContentChunks = [i \in DOMAIN yielded |-> Chunk(yielded[i].text)]
        /\ full_response = TextOf(yielded)

MappingOf(items) ==
    [k \in {items[i][1] : i \in DOMAIN items} |->
        Range(items[CHOOSE i \in DOMAIN items : items[i][1] = k][2])]

\* a mapping of the shape get_reference returns
IsReferenceMapping(items) ==
    \A i \in DOMAIN items :
        /\ items[i][1] # <<>>
        /\ Range(items[i][1]) \subseteq WordChars
        /\ Lower(items[i][1]) = items[i][1]
        /\ items[i][2] # <<>>
        /\ \A j \in DOMAIN items[i][2] : IsDigitStr(items[i][2][j])

C30_RoundTrip ==
    (lkpc = "scanned" /\ IsReferenceMapping(link_data))
        => link_refs = MappingOf(link_data)

============================================================================
